---- MODULE Spec2Model ----
(***************************************************************************)
(* Model of the dynamic aggregate-query planner of custom/db.py            *)
(* (class Database): _aggregate_item, _is_not_null, query, query_agg,      *)
(* query_column_aggregate, query_time_agg and subquery_join.               *)
(*                                                                         *)
(* A query object is modelled by the parts SQLAlchemy composes it from:    *)
(* the projection (select), the group-by list, the fact/dimension join and *)
(* the filter list.  Python exceptions are results [ok |-> FALSE, exc, at].*)
(* Python strings are TLA+ strings; a time grain, which the code parses,   *)
(* is a sequence of one-character strings.                                 *)
(***************************************************************************)
EXTENDS Integers, Sequences, FiniteSets, TLC

\* call: the method called and its arguments; result: what it returned or
\* raised; session: Database.session; rows: the rows of the fact table;
\* pc: the position of the handler (of each thread, when several run);
\* log: the calls made to the execution layer (pandas, urllib3, the session
\* factory) in order; entity_type_metadata: Database.entity_type_metadata
VARIABLES call, result, session, rows, pc, log, entity_type_metadata

vars == <<call, result, session, rows, pc, log, entity_type_metadata>>

(***************************************************************************)
(* Python values                                                           *)
(***************************************************************************)
\* Python's None where a string is expected
None == "<None>"

\* '%s' % x : None prints as the text None
PyStr(x) == IF x = None THEN "None" ELSE x

\* '%s_%s' % (a, b)
Fmt2(a, b) == PyStr(a) \o "_" \o PyStr(b)

\* a raised exception: its Python class and the raise statement it comes from
Raise(exc, at) == [ok |-> FALSE, exc |-> exc, at |-> at]

(***************************************************************************)
(* Tables: table.cols are the column names of a reflected table (table.c). *)
(* dimension_table = None is the record with isNone.                       *)
(***************************************************************************)
\* set of the elements of a sequence
Range(s) == {s[i] : i \in 1..Len(s)}

\* the tables of the schema, each with its columns in table order
Catalog ==
    [t \in {"table", "dim"} |->
        IF t = "table"
        THEN <<"deviceid", "evt_timestamp", "temp", "pressure", "a", "a_sum",
               "site_code">>
        ELSE <<"deviceid", "site", "temp">>]

NoTable == [isNone |-> TRUE, name |-> None, cols |-> <<>>]

\* get_table: the reflected table, KeyError when the schema has none
get_table(table_name) ==
    IF table_name \in DOMAIN Catalog
    THEN [ok |-> TRUE,
          table |-> [isNone |-> FALSE, name |-> table_name,
                     cols |-> Catalog[table_name]]]
    ELSE Raise("KeyError", "table_does_not_exist")

(***************************************************************************)
(* Column expressions.  k is "agg" (an aggregate function over a column),  *)
(* "col" (a plain column), "bucket" (a time-bucket expression) or "entity" *)
(* (the whole table, as session.query(table) selects it).                  *)
(***************************************************************************)
Expr(k, fn, t, name, n, label) ==
    [k |-> k, fn |-> fn, t |-> t, name |-> name, n |-> n, label |-> label]

\* agg_map of _aggregate_item: aggregate kind -> SQL function
agg_map ==
    [a \in {"count", "max", "mean", "min", "std", "sum"} |->
        CASE a = "count" -> "count"
          [] a = "max" -> "max"
          [] a = "mean" -> "avg"
          [] a = "min" -> "min"
          [] a = "std" -> "std"
          [] a = "sum" -> "sum"]

\* the alias policy without the first_/last_ rule for the timestamp column
ItemAliasPlain(column_name, aggregate, alias_column, timestamp_col) ==
    IF alias_column = None THEN column_name ELSE alias_column

\* the alias _aggregate_item labels the expression with
ItemAlias(column_name, aggregate, alias_column, timestamp_col) ==
    IF alias_column = None
    THEN IF column_name = timestamp_col
         THEN IF aggregate = "min" THEN "first_" \o PyStr(timestamp_col)
              ELSE IF aggregate = "max" THEN "last_" \o PyStr(timestamp_col)
              ELSE Fmt2(alias_column, timestamp_col)
         ELSE column_name
    ELSE alias_column

\* the lookup with the dimension table tried before the fact table
ResolveDimFirst(table, dimension_table, column) ==
    IF (~dimension_table.isNone) /\ column \in Range(dimension_table.cols)
    THEN dimension_table.name
    ELSE IF column \in Range(table.cols) THEN table.name
    ELSE ""

\* table.c[column], else dimension_table.c[column]; "" when in neither
Resolve(table, dimension_table, column) ==
    IF column \in Range(table.cols) THEN table.name
    ELSE IF (~dimension_table.isNone) /\ column \in Range(dimension_table.cols)
         THEN dimension_table.name
    ELSE ""

\* _aggregate_item resolving the column before it looks up the aggregate kind
AggregateItemColumnFirst(table, column_name, aggregate, alias_column, dimension_table, timestamp_col) ==
    IF Resolve(table, dimension_table, column_name) = ""
    THEN Raise("KeyError", "aggregate_column_not_present")
    ELSE IF aggregate \notin DOMAIN agg_map
    THEN Raise("ValueError", "unsupported_aggregate")
    ELSE [ok |-> TRUE,
          col |-> Expr("agg", agg_map[aggregate],
                       Resolve(table, dimension_table, column_name),
                       column_name, 0,
                       ItemAlias(column_name, aggregate, alias_column,
                                 timestamp_col))]

_aggregate_item(table, column_name, aggregate, alias_column, dimension_table, timestamp_col) ==
    IF aggregate \notin DOMAIN agg_map
    THEN Raise("ValueError", "unsupported_aggregate")
    ELSE IF Resolve(table, dimension_table, column_name) = ""
    THEN Raise("KeyError", "aggregate_column_not_present")
    ELSE [ok |-> TRUE,
          col |-> Expr("agg", agg_map[aggregate],
                       Resolve(table, dimension_table, column_name),
                       column_name, 0,
                       ItemAlias(column_name, aggregate, alias_column,
                                 timestamp_col))]

\* _is_not_null: the IS NOT NULL predicate on the resolved column
_is_not_null(table, dimension_table, column) ==
    IF Resolve(table, dimension_table, column) = ""
    THEN Raise("ValueError", "column_not_found")
    ELSE [ok |-> TRUE,
          pred |-> [t |-> Resolve(table, dimension_table, column),
                    name |-> column]]

(***************************************************************************)
(* Time grains.  A grain is a sequence of characters; NoGrain is None.     *)
(***************************************************************************)
NoGrain == <<"<None>">>

RECURSIVE Str(_)
\* the Python string of a character sequence
Str(s) == IF s = <<>> THEN "" ELSE s[1] \o Str(Tail(s))

\* str.endswith
EndsWith(s, suffix) ==
    /\ Len(s) >= Len(suffix)
    /\ SubSeq(s, Len(s) - Len(suffix) + 1, Len(s)) = suffix

Digits == {"0", "1", "2", "3", "4", "5", "6", "7", "8", "9"}

DigitValue(d) ==
    CASE d = "0" -> 0 [] d = "1" -> 1 [] d = "2" -> 2 [] d = "3" -> 3
      [] d = "4" -> 4 [] d = "5" -> 5 [] d = "6" -> 6 [] d = "7" -> 7
      [] d = "8" -> 8 [] d = "9" -> 9

RECURSIVE DigitsValue(_)
DigitsValue(s) ==
    IF s = <<>> THEN 0
    ELSE DigitsValue(SubSeq(s, 1, Len(s) - 1)) * 10 + DigitValue(s[Len(s)])

\* int(s) for a string of sign and digit characters: ValueError unless it is
\* an optional sign followed by at least one digit
PyInt(s) ==
    LET body == IF s # <<>> /\ s[1] \in {"-", "+"} THEN Tail(s) ELSE s
    IN  IF body # <<>> /\ \A i \in 1..Len(body) : body[i] \in Digits
        THEN [ok |-> TRUE,
              value |-> IF s[1] = "-" THEN 0 - DigitsValue(body)
                        ELSE DigitsValue(body)]
        ELSE Raise("ValueError", "int_invalid_literal")

\* the SQL function query_agg applies for a calendar grain
CalendarFn(grain) ==
    CASE grain = "day" -> "day"
      [] grain = "week" -> "this_week"
      [] grain = "month" -> "this_month"
      [] grain = "year" -> "this_year"

\* statement sequencing: F runs on the value of x unless x raised
Then(x, F(_)) == IF x.ok THEN F(x) ELSE x

\* the column expression labelled with the function applied to it
TableColumnFunctionLabel(table, name, fn_k, fn, n, label) ==
    IF name \in Range(table.cols)
    THEN [ok |-> TRUE,
          col |-> Expr(fn_k, fn, table.name, name, n, Fmt2(fn, name))]
    ELSE Raise("KeyError", "table_c_column")

\* table.c[name]: the column expression labelled label, or KeyError
TableColumn(table, name, fn_k, fn, n, label) ==
    IF name \in Range(table.cols)
    THEN [ok |-> TRUE, col |-> Expr(fn_k, fn, table.name, name, n, label)]
    ELSE Raise("KeyError", "table_c_column")

\* a bucket expression returned together with a pandas frequency
PushDownWithFrequency(c) ==
    [ok |-> TRUE, pandas_aggregate |-> c.col.label, grp |-> <<c.col>>]

\* a recognized grain: the bucket expression as the only group-by item
PushDown(c) == [ok |-> TRUE, pandas_aggregate |-> None, grp |-> <<c.col>>]

\* _ts_col_rounded_to_minutes / _ts_col_rounded_to_hours: the timestamp
\* floored to a multiple of n minutes (hours), labelled label
_ts_col_rounded(table, unit, column_name, n, label) ==
    TableColumn(table, column_name, "bucket", unit, n, label)

\* the time-grain branch of query_agg (the if/elif chain on time_grain):
\* the group-by expression of the bucket, or the pandas frequency
TimeGrain(table, timestamp, time_grain) ==
    IF timestamp = None
    THEN Raise("ValueError", "must_supply_timestamp_for_time_aggregate")
    ELSE IF Str(time_grain) = timestamp
    THEN Then(TableColumn(table, timestamp, "col", "", 0, timestamp), PushDown)
    ELSE IF EndsWith(time_grain, <<"m", "i", "n">>)
    THEN Then(PyInt(SubSeq(time_grain, 1, Len(time_grain) - 3)),
              LAMBDA minutes :
                  Then(_ts_col_rounded(table, "minutes", timestamp,
                                       minutes.value, timestamp),
                       PushDown))
    ELSE IF EndsWith(time_grain, <<"H">>)
    THEN Then(PyInt(SubSeq(time_grain, 1, Len(time_grain) - 1)),
              LAMBDA hours :
                  Then(_ts_col_rounded(table, "hours", timestamp, hours.value,
                                       timestamp),
                       PushDown))
    ELSE IF Str(time_grain) \in {"day", "week", "month", "year"}
    THEN Then(TableColumn(table, timestamp, "bucket",
                          CalendarFn(Str(time_grain)), 0, timestamp),
              PushDown)
    ELSE [ok |-> TRUE, pandas_aggregate |-> Str(time_grain), grp |-> <<>>]

(***************************************************************************)
(* Filters of a query: op is "ge" (column >= val), "lt" (column < val),    *)
(* "in" (column IN ents) or "or" (the OR of IS NOT NULL over preds).       *)
(***************************************************************************)
NoTs == -1
NoEntities == {None}

Filter(op, t, name, val, ents, preds) ==
    [op |-> op, t |-> t, name |-> name, val |-> val, ents |-> ents,
     preds |-> preds]

\* or_(*metric_filter)
OrNotNull(metric_filter) == Filter("or", "", "", 0, {}, metric_filter)

\* a start_session that opens a new session at every call
StartSessionAnew(s) == "Session"

\* Database.start_session: a session is created only when there is none
start_session(s) == IF s = "None" THEN "Session" ELSE s

\* get_table(dimension) when a dimension is named, else dim = None
get_dim(dimension) ==
    IF dimension = None THEN [ok |-> TRUE, table |-> NoTable]
    ELSE get_table(dimension)

\* the columns of dim other than deviceid, as query() projects them
DimColumnsOf(dim) ==
    SelectSeq([i \in 1..Len(dim.cols) |->
                  Expr("col", "", dim.name, dim.cols[i], 0, dim.cols[i])],
              LAMBDA e : e.name # "deviceid")

\* the filters of Database.query without the date range
QueryFiltersEntitiesOnly(table, timestamp_col, start_ts, end_ts, entities) ==
    IF entities # NoEntities
    THEN <<Filter("in", table.name, "deviceid", 0, entities, <<>>)>>
    ELSE <<>>

\* the date and entity filters of Database.query, in the order applied
QueryFilters(table, timestamp_col, start_ts, end_ts, entities) ==
    (IF start_ts # NoTs
     THEN <<Filter("ge", table.name, timestamp_col, start_ts, {}, <<>>)>>
     ELSE <<>>)
    \o (IF end_ts # NoTs
        THEN <<Filter("lt", table.name, timestamp_col, end_ts, {}, <<>>)>>
        ELSE <<>>)
    \o (IF entities # NoEntities
        THEN <<Filter("in", table.name, "deviceid", 0, entities, <<>>)>>
        ELSE <<>>)

\* the body of Database.query once table and dim are resolved
QueryOn(table, dim, timestamp_col, start_ts, end_ts, entities) ==
    IF (start_ts # NoTs \/ end_ts # NoTs) /\ timestamp_col = None
    THEN Raise("ValueError", "no_timestamp_col_for_date_filter")
    ELSE IF (start_ts # NoTs \/ end_ts # NoTs)
            /\ timestamp_col \notin Range(table.cols)
    THEN Raise("KeyError", "table_c_column")
    ELSE [ok |-> TRUE,
          table |-> table,
          query |-> [raw |-> TRUE,
                     select |-> <<Expr("entity", "", table.name, "", 0, "")>>
                                \o (IF dim.isNone THEN <<>>
                                    ELSE DimColumnsOf(dim)),
                     group_by |-> <<>>,
                     join |-> ~dim.isNone,
                     where |-> QueryFilters(table, timestamp_col, start_ts,
                                            end_ts, entities)]]

\* Database.query with column_names = None: the raw rows of the table,
\* joined to the dimension, under the date and entity filters
query(table_name, timestamp_col, start_ts, end_ts, entities, dimension) ==
    Then(get_table(table_name), LAMBDA t :
    Then(get_dim(dimension), LAMBDA d :
        QueryOn(t.table, d.table, timestamp_col, start_ts, end_ts, entities)))

(***************************************************************************)
(* query_agg.  agg_dict is the sequence of its items in dict order, each   *)
(* [col, form, aggs]: form "str" (one kind, aggs of length 1), "list" or   *)
(* "other" (neither a str nor a list).  agg_outputs is [isNone, d] with d  *)
(* the dict column -> list of aliases.  groupby is [form, names] with form *)
(* "none", "str" or "list".                                                *)
(***************************************************************************)
NoOutputs == [isNone |-> TRUE, d |-> <<>>]

\* the item column: 'kind' and the item column: [kinds] of agg_dict
One(col, agg) == [col |-> col, form |-> "str", aggs |-> <<agg>>]
Many(col, aggs) == [col |-> col, form |-> "list", aggs |-> aggs]

\* agg_outputs[col][i] inside try/except (KeyError, IndexError), i from 1
OutputName(agg_outputs, col, agg, i) ==
    IF agg_outputs.isNone
    THEN Raise("TypeError", "agg_outputs_not_subscriptable")
    ELSE IF col \in DOMAIN agg_outputs.d /\ i <= Len(agg_outputs.d[col])
    THEN [ok |-> TRUE, output |-> agg_outputs.d[col][i], warnings |-> 0]
    ELSE [ok |-> TRUE, output |-> Fmt2(col, agg), warnings |-> 1]

\* AddArg that also adds a not-null predicate for every projected aggregate
AddArgWithPredicate(acc, item, w) ==
    [acc EXCEPT !.args = Append(@, item.col),
                !.metric_filter = Append(@, [t |-> item.col.t,
                                             name |-> item.col.name]),
                !.warnings = @ + w]

\* acc with one more projected aggregate and w more warnings
AddArg(acc, item, w) ==
    [acc EXCEPT !.args = Append(@, item.col), !.warnings = @ + w]

RECURSIVE ListLoop(_, _, _, _, _, _, _, _)
\* for i,agg in enumerate(aggs): acc is [ok, args, metric_filter, warnings]
ListLoop(table, dim, timestamp, agg_outputs, col, aggs, i, acc) ==
    IF i > Len(aggs) THEN acc
    ELSE Then(OutputName(agg_outputs, col, aggs[i], i), LAMBDA out :
         Then(_aggregate_item(table, col, aggs[i], out.output, dim, timestamp),
              LAMBDA item :
                  ListLoop(table, dim, timestamp, agg_outputs, col, aggs,
                           i + 1, AddArg(acc, item, out.warnings))))

\* the aggregates of one item of agg_dict appended to acc.args
ItemArgs(table, dim, timestamp, agg_outputs, e, acc) ==
    IF e.form = "str"
    THEN Then(_aggregate_item(table, e.col, e.aggs[1], None, dim, timestamp),
              LAMBDA item : AddArg(acc, item, 0))
    ELSE IF e.form = "list"
    THEN ListLoop(table, dim, timestamp, agg_outputs, e.col, e.aggs, 1, acc)
    ELSE Raise("ValueError", "aggregate_dictionary_form")

RECURSIVE DictLoop(_, _, _, _, _, _, _)
\* for col,aggs in agg_dict.items()
DictLoop(table, dim, timestamp, agg_outputs, agg_dict, j, acc) ==
    IF j > Len(agg_dict) THEN acc
    ELSE Then(ItemArgs(table, dim, timestamp, agg_outputs, agg_dict[j], acc),
              LAMBDA items :
         Then(_is_not_null(table, dim, agg_dict[j].col), LAMBDA nn :
             DictLoop(table, dim, timestamp, agg_outputs, agg_dict, j + 1,
                      [items EXCEPT !.metric_filter = Append(@, nn.pred)])))

RECURSIVE GroupLoopOneKind(_, _, _, _, _)
\* the group-by loop raising KeyError for every name that is not found
GroupLoopOneKind(table, dim, groupby, i, grp) ==
    IF i > Len(groupby) THEN [ok |-> TRUE, grp |-> grp]
    ELSE IF groupby[i] \in Range(table.cols)
    THEN GroupLoopOneKind(table, dim, groupby, i + 1,
                          Append(grp, Expr("col", "", table.name, groupby[i],
                                           0, groupby[i])))
    ELSE IF (~dim.isNone) /\ groupby[i] \in Range(dim.cols)
    THEN GroupLoopOneKind(table, dim, groupby, i + 1,
                          Append(grp, Expr("col", "", dim.name, groupby[i], 0,
                                           groupby[i])))
    ELSE Raise("KeyError", "group_by_not_in_table_no_dimension")

RECURSIVE GroupLoop(_, _, _, _, _)
\* for g in groupby: the group-by columns appended to grp
GroupLoop(table, dim, groupby, i, grp) ==
    IF i > Len(groupby) THEN [ok |-> TRUE, grp |-> grp]
    ELSE IF groupby[i] \in Range(table.cols)
    THEN GroupLoop(table, dim, groupby, i + 1,
                   Append(grp, Expr("col", "", table.name, groupby[i], 0,
                                    groupby[i])))
    ELSE IF ~dim.isNone
    THEN IF groupby[i] \in Range(dim.cols)
         THEN GroupLoop(table, dim, groupby, i + 1,
                        Append(grp, Expr("col", "", dim.name, groupby[i], 0,
                                         groupby[i])))
         ELSE Raise("ValueError", "group_by_not_in_table_or_dimension")
    ELSE Raise("KeyError", "group_by_not_in_table_no_dimension")

\* what query_agg returns or raises (ret) and the session it leaves
Outcome(ret, s) == [ret |-> ret, session |-> s]

\* the end of query_agg, from self.start_session() on
AssembleQuery(s, table_name, table, dim, agg_dict, aggs, tg, g, timestamp, dimension, start_ts, end_ts, entities) ==
    IF tg.pandas_aggregate = None
    THEN Outcome([ok |-> TRUE, table |-> table, dim |-> dim,
                  pandas_aggregate |-> None, agg_dict |-> agg_dict,
                  warnings |-> aggs.warnings,
                  query |-> [raw |-> FALSE, select |-> aggs.args \o g.grp,
                             group_by |-> g.grp, join |-> dimension # None,
                             where |-> <<OrNotNull(aggs.metric_filter)>>]],
                 start_session(s))
    ELSE Outcome(Then(query(table_name, timestamp, start_ts, end_ts, entities,
                            dimension),
                      LAMBDA q :
                          [ok |-> TRUE, table |-> q.table, dim |-> dim,
                           pandas_aggregate |-> tg.pandas_aggregate,
                           agg_dict |-> agg_dict, warnings |-> aggs.warnings,
                           query |-> [q.query EXCEPT !.where =
                                         @ \o <<OrNotNull(aggs.metric_filter)>>]]),
                 start_session(s))

\* query_agg up to args.extend(grp): the projection, the not-null
\* predicates, the time bucket and the group-by list
QueryAggArgs(s, table_name, table, dim, agg_dict, agg_outputs, groupby, timestamp, time_grain, dimension, start_ts, end_ts, entities) ==
    Then(DictLoop(table, dim, timestamp, agg_outputs, agg_dict, 1,
                  [ok |-> TRUE, args |-> <<>>, metric_filter |-> <<>>,
                   warnings |-> 0]),
         LAMBDA aggs :
    Then(IF time_grain = NoGrain
         THEN [ok |-> TRUE, pandas_aggregate |-> None, grp |-> <<>>]
         ELSE TimeGrain(table, timestamp, time_grain),
         LAMBDA tg :
    Then(GroupLoop(table, dim,
                   IF groupby.form = "none" THEN <<>> ELSE groupby.names,
                   1, tg.grp),
         LAMBDA g :
             [ok |-> TRUE, aggs |-> aggs, tg |-> tg, g |-> g])))

\* the outcome of the assembly p on session s
Assembled(s, p, table_name, table, dim, agg_dict, timestamp, dimension, start_ts, end_ts, entities) ==
    IF p.ok
    THEN AssembleQuery(s, table_name, table, dim, agg_dict, p.aggs, p.tg, p.g,
                       timestamp, dimension, start_ts, end_ts, entities)
    ELSE Outcome(p, s)

\* query_agg once table and dim are resolved
QueryAggOn(s, table_name, table, dim, agg_dict, agg_outputs, groupby, timestamp, time_grain, dimension, start_ts, end_ts, entities) ==
    Assembled(s,
              QueryAggArgs(s, table_name, table, dim, agg_dict, agg_outputs,
                           groupby, timestamp, time_grain, dimension, start_ts,
                           end_ts, entities),
              table_name, table, dim, agg_dict, timestamp, dimension,
              start_ts, end_ts, entities)

\* the tables of a call: [ok, table, dim], or what get_table raises
Tables(table_name, dimension) ==
    Then(get_table(table_name), LAMBDA t :
    Then(get_dim(dimension), LAMBDA d :
        [ok |-> TRUE, table |-> t.table, dim |-> d.table]))

\* query_agg on the resolved tables td
QueryAggWith(s, td, table_name, agg_dict, agg_outputs, groupby, timestamp, time_grain, dimension, start_ts, end_ts, entities) ==
    IF td.ok
    THEN QueryAggOn(s, table_name, td.table, td.dim, agg_dict, agg_outputs,
                    groupby, timestamp, time_grain, dimension, start_ts,
                    end_ts, entities)
    ELSE Outcome(td, s)

\* Database.query_agg called with session s: ret is the tuple (query, table,
\* dim, pandas_aggregate, agg_dict) or the exception raised
query_agg(s, table_name, agg_dict, agg_outputs, groupby, timestamp, time_grain, dimension, start_ts, end_ts, entities) ==
    QueryAggWith(s, Tables(table_name, dimension), table_name, agg_dict,
                 agg_outputs, groupby, timestamp, time_grain, dimension,
                 start_ts, end_ts, entities)

(***************************************************************************)
(* subquery_join and query_time_agg                                        *)
(***************************************************************************)
\* the column names of query.subquery(): the labels of the projection, and
\* for a selected table all of its columns
RECURSIVE SubqueryColumns(_)
SubqueryColumns(select) ==
    IF select = <<>> THEN <<>>
    ELSE (IF Head(select).k = "entity" THEN Catalog[Head(select).t]
          ELSE <<Head(select).label>>)
         \o SubqueryColumns(Tail(select))

\* a projected column that keeps its own name whatever the alias
JoinColumnUnaliased(side, col, label) ==
    [side |-> side, col |-> col, label |-> col]

\* one projected column of a join: column col of subquery side, as label
JoinColumn(side, col, label) == [side |-> side, col |-> col, label |-> label]

\* the join projecting every left-hand column after the right-hand ones
SubqueryJoinKeepAllLeft(left_query, right_query, args, kwargs) ==
    LET lc == SubqueryColumns(left_query.select)
        rc == SubqueryColumns(right_query.select)
    IN  IF \E i \in 1..Len(args) :
               args[i].l \notin Range(lc) \/ args[i].r \notin Range(rc)
        THEN Raise("KeyError", "subquery_c_column")
        ELSE IF \E i \in 1..Len(kwargs) : kwargs[i][1] \notin Range(rc)
        THEN Raise("KeyError", "subquery_c_column")
        ELSE [ok |-> TRUE,
              query |-> [left |-> left_query, right |-> right_query,
                         on |-> args,
                         select |->
                             [i \in 1..Len(kwargs) |->
                                 JoinColumn("b", kwargs[i][1], kwargs[i][2])]
                             \o [i \in 1..Len(lc) |->
                                    JoinColumn("a", lc[i], lc[i])]]]

\* Database.subquery_join: args is the sequence of join keys [l, r] (a str
\* key has l = r), kwargs the sequence of (column, alias) pairs of the
\* right-hand columns to return
subquery_join(left_query, right_query, args, kwargs) ==
    LET lc == SubqueryColumns(left_query.select)
        rc == SubqueryColumns(right_query.select)
        covered_columns == {kwargs[i][2] : i \in 1..Len(kwargs)}
    IN  IF \E i \in 1..Len(args) :
               args[i].l \notin Range(lc) \/ args[i].r \notin Range(rc)
        THEN Raise("KeyError", "subquery_c_column")
        ELSE IF \E i \in 1..Len(kwargs) : kwargs[i][1] \notin Range(rc)
        THEN Raise("KeyError", "subquery_c_column")
        ELSE [ok |-> TRUE,
              query |-> [left |-> left_query, right |-> right_query,
                         on |-> args,
                         select |->
                             [i \in 1..Len(kwargs) |->
                                 JoinColumn("b", kwargs[i][1], kwargs[i][2])]
                             \o SelectSeq(
                                    [i \in 1..Len(lc) |->
                                        JoinColumn("a", lc[i], lc[i])],
                                    LAMBDA c : c.col \notin covered_columns)]]

\* the characters of a timestamp column name (time_grain = timestamp)
Chars(name) ==
    IF name = "evt_timestamp"
    THEN <<"e", "v", "t", "_", "t", "i", "m", "e", "s", "t", "a", "m", "p">>
    ELSE NoGrain

\* the time grain of the regular rollup of query_time_agg: the bucketed grain
RegularGrainBucketed(timestamp, time_grain) == time_grain

\* the time grain of the regular rollup of query_time_agg: time_grain =
\* timestamp, the raw timestamp column
RegularGrain(timestamp, time_grain) == Chars(timestamp)

\* statement sequencing on outcomes: F runs unless o raised
ThenO(o, F(_)) == IF o.ret.ok THEN F(o) ELSE o

\* the join keys of query_time_agg: (timestamp, right_timestamp), then the
\* group-by names
TimeAggKeys(timestamp, right_timestamp, names) ==
    <<[l |-> timestamp, r |-> right_timestamp]>>
    \o [i \in 1..Len(names) |-> [l |-> names[i], r |-> names[i]]]

\* the end of query_time_agg: keys, right_cols and the subquery_join of the
\* two plans a and b
JoinTimeAgg(a, b, time_agg, groupby, timestamp) ==
    IF groupby.form = "none"
    THEN Outcome(Raise("TypeError", "keys_extend_none"), b.session)
    ELSE Outcome(
             Then(subquery_join(
                      a.ret.query, b.ret.query,
                      TimeAggKeys(timestamp, Fmt2(time_agg, timestamp),
                                  groupby.names),
                      << <<Fmt2(time_agg, timestamp),
                           Fmt2(time_agg, timestamp)>>,
                         <<timestamp, timestamp>> >>),
                  LAMBDA j :
                      [ok |-> TRUE, query |-> j.query, table |-> b.ret.table]),
             b.session)

\* query_time_agg taking every time_agg other than first as last
QueryTimeAggAnyExtreme(s, table_name, column, regular_agg, time_agg, groupby, timestamp, time_grain, dimension, start_ts, end_ts, entities) ==
    ThenO(query_agg(s, table_name,
                    <<[col |-> column, form |-> regular_agg.form,
                       aggs |-> regular_agg.aggs]>>,
                    NoOutputs, groupby, timestamp,
                    RegularGrain(timestamp, time_grain), dimension, start_ts,
                    end_ts, entities),
          LAMBDA a :
    ThenO(query_agg(a.session, table_name,
                    <<One(timestamp, IF time_agg = "first" THEN "min" ELSE "max")>>,
                    NoOutputs, groupby, timestamp, time_grain, None, start_ts,
                    end_ts, entities),
          LAMBDA b :
              JoinTimeAgg(a, b, IF time_agg = "first" THEN "first" ELSE "last",
                          groupby, timestamp)))

\* Database.query_time_agg called with session s; regular_agg is [form, aggs]
query_time_agg(s, table_name, column, regular_agg, time_agg, groupby, timestamp, time_grain, dimension, start_ts, end_ts, entities) ==
    ThenO(query_agg(s, table_name,
                    <<[col |-> column, form |-> regular_agg.form,
                       aggs |-> regular_agg.aggs]>>,
                    NoOutputs, groupby, timestamp,
                    RegularGrain(timestamp, time_grain), dimension, start_ts,
                    end_ts, entities),
          LAMBDA a :
    IF a.ret.pandas_aggregate \notin {None, ""}
    THEN Outcome(Raise("ValueError", "fallback_not_joinable"), a.session)
    ELSE IF time_agg \notin {"first", "last"}
    THEN Outcome(Raise("ValueError", "invalid_time_aggregate"), a.session)
    ELSE
    ThenO(query_agg(a.session, table_name,
                    <<One(timestamp, IF time_agg = "first" THEN "min" ELSE "max")>>,
                    NoOutputs, groupby, timestamp, time_grain, None, start_ts,
                    end_ts, entities),
          LAMBDA b : JoinTimeAgg(a, b, time_agg, groupby, timestamp)))

(***************************************************************************)
(* Inputs                                                                  *)
(***************************************************************************)
\* largest <N> of the generated <N>min and <N>H grains
MaxBucket == 1

AggKinds == {"count", "max", "mean", "min", "std", "sum"}
OtherKinds == {"median", "first"}
ItemColumns == {"temp", "evt_timestamp", "site", "nope"}
ItemAliases == {None, "out"}
TimestampCols == {None, "evt_timestamp"}

AggDicts ==
    { <<One("temp", "mean")>>,
      <<Many("pressure", <<"min", "max">>), One("temp", "mean")>>,
      <<Many("a", <<"sum">>), One("a_sum", "mean")>>,
      <<One("evt_timestamp", "count")>>,
      <<One("evt_timestamp", "max"), Many("temp", <<"sum", "std">>)>>,
      <<One("temp", "median")>>,
      <<Many("nope", <<"sum">>)>>,
      <<Many("temp", <<>>)>> }

AggOutputs ==
    { NoOutputs,
      [isNone |-> FALSE, d |-> <<>>],
      [isNone |-> FALSE,
       d |-> [c \in {"pressure", "temp"} |->
                 IF c = "pressure" THEN <<"p_lo">> ELSE <<"lo", "hi">>]] }

GroupBys ==
    { [form |-> "none", names |-> <<>>],
      [form |-> "str", names |-> <<"site">>],
      [form |-> "list", names |-> <<"deviceid", "nope">>],
      [form |-> "list", names |-> <<"temp", "site">>] }

DigitChar(n) ==
    CASE n = 0 -> "0" [] n = 1 -> "1" [] n = 2 -> "2" [] n = 3 -> "3"
      [] n = 4 -> "4" [] n = 5 -> "5" [] n = 6 -> "6" [] n = 7 -> "7"
      [] n = 8 -> "8" [] n = 9 -> "9"

\* the grains <N>min and <N>H
NumberedGrains ==
    {<<DigitChar(n)>> \o suffix :
        n \in 1..MaxBucket, suffix \in {<<"m", "i", "n">>, <<"H">>}}
    \cup {<<"1", "5", "m", "i", "n">>}

CalendarGrains ==
    {<<"d", "a", "y">>, <<"w", "e", "e", "k">>, <<"m", "o", "n", "t", "h">>,
     <<"y", "e", "a", "r">>}

\* other pandas frequency strings, and the timestamp column itself
OtherGrains ==
    {<<"W", "-", "M", "O", "N">>, <<"B", "H">>, <<"m", "i", "n">>,
     <<"e", "v", "t", "_", "t", "i", "m", "e", "s", "t", "a", "m", "p">>}

TimeGrains == {NoGrain} \cup NumberedGrains \cup CalendarGrains \cup OtherGrains

Dimensions == {None, "dim"}

\* inputs of query_time_agg
TimeAggColumns == {"temp", "nope"}
RegularAggs ==
    { [form |-> "str", aggs |-> <<"sum">>],
      [form |-> "str", aggs |-> <<"median">>],
      [form |-> "list", aggs |-> <<"sum">>] }
TimeAggs == {"first", "last", "middle"}
TimeAggGroupBys ==
    { [form |-> "none", names |-> <<>>],
      [form |-> "str", names |-> <<"deviceid">>],
      [form |-> "list", names |-> <<"deviceid">>],
      [form |-> "list", names |-> <<"site">>] }

\* rows of the fact table: timestamps in minutes 0..MaxTs, at most MaxRows
\* rows; NULL is the SQL null
MaxTs == 2
MaxRows == 2
NULL == -1

Row(ts, deviceid, temp) ==
    [evt_timestamp |-> ts, deviceid |-> deviceid, temp |-> temp]

AllRows == {Row(ts, d, v) : ts \in 0..MaxTs, d \in {1, 2}, v \in {NULL, 1, 2}}

RECURSIVE RowSetsUpTo(_)
\* the sets of at most k rows
RowSetsUpTo(k) ==
    IF k = 0 THEN {{}}
    ELSE {S \cup T : S \in RowSetsUpTo(k - 1), T \in {{}} \cup {{r} : r \in AllRows}}

RowSets == RowSetsUpTo(MaxRows)

\* the rows of the dimension table: device 2 has no dimension row
DimRows == {[deviceid |-> 1, site |-> 7, temp |-> NULL]}

\* inputs of query_time_agg for the runs against table content
DataRegularAggs == {"sum", "count", "max"}
DataGrains == {<<"2", "m", "i", "n">>, <<"1", "H">>, <<"d", "a", "y">>}
DataGroupBys ==
    { [form |-> "list", names |-> <<>>],
      [form |-> "list", names |-> <<"deviceid">>] }
StartTs == {NoTs, 10}
EndTs == {NoTs, 20}
EntitySets == {NoEntities, {"d1", "d2"}}

\* inputs of _ts_col_rounded_to_minutes and _ts_col_rounded_to_hours: the
\* sizes that divide the hour (the day) and two that do not, and timestamps
\* (minutes) with every minute of the first and last hour of two days
MinuteSizes == {n \in 1..60 : 60 % n = 0} \cup {7, 45}
HourSizes == {n \in 1..24 : 24 % n = 0} \cup {5}
RoundedTimestamps ==
    {d * 1440 + h * 60 + m : d \in {0, 1}, h \in {0, 23}, m \in 0..59}
    \cup {h * 60 + 59 : h \in 0..23}

\* inputs of subquery_join: a query projecting the columns labels
Plan(labels) ==
    [raw |-> FALSE,
     select |-> [i \in 1..Len(labels) |->
                    Expr("col", "", "table", labels[i], 0, labels[i])],
     group_by |-> <<>>, join |-> FALSE, where |-> <<>>]

LeftQueries ==
    { Plan(<<"site", "total_energy">>),
      Plan(<<"temp", "evt_timestamp", "site">>),
      Plan(<<"last_evt_timestamp", "site">>) }

RightQueries ==
    { Plan(<<"last_evt_timestamp", "site">>),
      Plan(<<"last_evt_timestamp", "evt_timestamp", "site">>) }

JoinKeys ==
    { <<[l |-> "site", r |-> "site"]>>,
      <<[l |-> "evt_timestamp", r |-> "last_evt_timestamp"],
        [l |-> "site", r |-> "site"]>>,
      <<[l |-> "site", r |-> "nope"]>> }

\* the (column, alias) items of **kwargs
RightAliases ==
    { <<>>,
      << <<"last_evt_timestamp", "last_evt_timestamp">> >>,
      << <<"last_evt_timestamp", "last_evt_timestamp">>,
         <<"evt_timestamp", "evt_timestamp">> >>,
      << <<"last_evt_timestamp", "x">>, <<"evt_timestamp", "x">> >>,
      << <<"last_evt_timestamp", "site">> >>,
      << <<"nope", "x">> >> }

(***************************************************************************)
(* Execution of a query against the rows of the tables (get_query_data):   *)
(* the SQL meaning of the parts query_agg and subquery_join compose.  A    *)
(* source row is [table |-> fact row, dim |-> dimension row]; a result row *)
(* is the sequence of the values of the projection.                        *)
(***************************************************************************)
\* FROM table [JOIN dim ON dim.deviceid = table.deviceid]
SourceRows(q, rws) ==
    IF q.join
    THEN {[table |-> p[1], dim |-> p[2]] :
             p \in {x \in rws \X DimRows : x[1].deviceid = x[2].deviceid}}
    ELSE {[table |-> r, dim |-> <<>>] : r \in rws}

\* the value of the column an expression or predicate is on
ColumnValue(e, sr) == sr[e.t][e.name]

\* the minute and hour buckets with the quotient rounded to the nearest
\* integer instead of truncated
BucketValueRounded(e, v) ==
    IF v = NULL THEN NULL
    ELSE CASE e.fn = "minutes" ->
                  (v \div 1440) * 1440 + ((v % 1440) \div 60) * 60
                  + ((((v % 60) * 2 + e.n) \div (2 * e.n)) * e.n)
           [] e.fn = "hours" ->
                  (v \div 1440) * 1440
                  + (((((v % 1440) \div 60) * 2 + e.n) \div (2 * e.n)) * e.n) * 60
           [] e.fn = "day" -> (v \div 1440) + 1
           [] e.fn = "this_week" -> (v \div 10080) * 10080
           [] e.fn \in {"this_month", "this_year"} -> 0

\* the value of a time-bucket expression on timestamp v (minutes):
\* add_minutes(add_hours(timestamp(date), hour), (minute / n) * n),
\* add_hours(timestamp(date), (hour / n) * n), and the day, week, month and
\* year of rows that lie within one month
BucketValue(e, v) ==
    IF v = NULL THEN NULL
    ELSE CASE e.fn = "minutes" ->
                  (v \div 1440) * 1440 + ((v % 1440) \div 60) * 60
                  + (((v % 60) \div e.n) * e.n)
           [] e.fn = "hours" ->
                  (v \div 1440) * 1440 + ((((v % 1440) \div 60) \div e.n) * e.n) * 60
           [] e.fn = "day" -> (v \div 1440) + 1
           [] e.fn = "this_week" -> (v \div 10080) * 10080
           [] e.fn \in {"this_month", "this_year"} -> 0

\* the value of a group-by expression on a source row
GroupValue(e, sr) ==
    IF e.k = "bucket" THEN BucketValue(e, ColumnValue(e, sr))
    ELSE ColumnValue(e, sr)

\* a source row passes a filter
Passes(f, sr) ==
    CASE f.op = "ge" -> ColumnValue(f, sr) # NULL /\ ColumnValue(f, sr) >= f.val
      [] f.op = "lt" -> ColumnValue(f, sr) # NULL /\ ColumnValue(f, sr) < f.val
      [] f.op = "in" -> ColumnValue(f, sr) \in f.ents
      [] f.op = "or" -> \E i \in 1..Len(f.preds) :
                            ColumnValue(f.preds[i], sr) # NULL

RECURSIVE SumOf(_, _)
SumOf(e, G) ==
    IF G = {} THEN 0
    ELSE LET sr == CHOOSE x \in G : TRUE
         IN  ColumnValue(e, sr) + SumOf(e, G \ {sr})

\* an aggregate function over the non-null values of a group of source rows
AggregateOver(e, NN) ==
    CASE e.fn = "count" -> Cardinality(NN)
      [] NN = {} /\ e.fn # "count" -> NULL
      [] NN # {} /\ e.fn = "sum" -> SumOf(e, NN)
      [] NN # {} /\ e.fn = "max" ->
             ColumnValue(e, CHOOSE x \in NN :
                 \A y \in NN : ColumnValue(e, y) <= ColumnValue(e, x))
      [] NN # {} /\ e.fn = "min" ->
             ColumnValue(e, CHOOSE x \in NN :
                 \A y \in NN : ColumnValue(e, y) >= ColumnValue(e, x))

AggregateValue(e, G) ==
    AggregateOver(e, {sr \in G : ColumnValue(e, sr) # NULL})

\* the result row of one group
GroupRow(q, G) ==
    [i \in 1..Len(q.select) |->
        IF q.select[i].k = "agg" THEN AggregateValue(q.select[i], G)
        ELSE GroupValue(q.select[i], CHOOSE sr \in G : TRUE)]

GroupKey(q, sr) ==
    [i \in 1..Len(q.group_by) |-> GroupValue(q.group_by[i], sr)]

\* the groups of the filtered source rows F
GroupRows(q, F) ==
    IF q.group_by = <<>> THEN {GroupRow(q, F)}
    ELSE {GroupRow(q, {sr \in F : GroupKey(q, sr) = k}) :
             k \in {GroupKey(q, sr) : sr \in F}}

\* SELECT select FROM source WHERE where GROUP BY group_by
Execute(q, rws) ==
    GroupRows(q, {sr \in SourceRows(q, rws) :
                     \A i \in 1..Len(q.where) : Passes(q.where[i], sr)})

\* the position of the column labelled label
ColumnIndex(select, label) ==
    CHOOSE i \in 1..Len(select) :
        /\ select[i].label = label
        /\ \A j \in 1..(i - 1) : select[j].label # label

\* the rows of a joined with the rows of b on the keys of jq
JoinRows(jq, A, B) ==
    {[i \in 1..Len(jq.select) |->
         IF jq.select[i].side = "b"
         THEN p[2][ColumnIndex(jq.right.select, jq.select[i].col)]
         ELSE p[1][ColumnIndex(jq.left.select, jq.select[i].col)]] :
        p \in {x \in A \X B :
                 \A k \in 1..Len(jq.on) :
                     /\ x[1][ColumnIndex(jq.left.select, jq.on[k].l)] # NULL
                     /\ x[1][ColumnIndex(jq.left.select, jq.on[k].l)]
                            = x[2][ColumnIndex(jq.right.select, jq.on[k].r)]}}

\* the rows of the query subquery_join builds
ExecuteJoin(jq, rws) ==
    JoinRows(jq, Execute(jq.left, rws), Execute(jq.right, rws))

(***************************************************************************)
(* The cache of entity types                                               *)
(***************************************************************************)
\* names of entity types and of their metric tables
EntityNames == {"Boiler", "Pump", "Valve"}
MetricTableNames == {"boiler_tbl", "pump_tbl"}

\* the caches Database.__init__ can build: a dict keyed by m['name'] whose
\* values carry metricTableName
EntityCaches ==
    UNION {[names -> [metricTableName : MetricTableNames]] :
               names \in SUBSET EntityNames}

\* the loop over the cached values in the except KeyError branch: the keys
\* of the entries whose metricTableName is name (the loop takes the first)
MetricTableMatches(cache, name) ==
    {n \in DOMAIN cache : cache[n].metricTableName = name}

\* Database.get_entity_type.  A name that is a key of the cache reaches
\* print(metadata) and the bare raise that follows it, which has no active
\* exception to re-raise; any other name reaches the except KeyError branch,
\* where, match or no match in the loop, the message is formatted with
\* '% i' % name, a TypeError for a str name.  The statements that build the
\* EntityType come after the bare raise.
get_entity_type(cache, name) ==
    IF name \in DOMAIN cache
    THEN Raise("RuntimeError", "no_active_exception_to_reraise")
    ELSE IF MetricTableMatches(cache, name) # {}
    THEN Raise("TypeError", "format_no_entity_called")
    ELSE Raise("TypeError", "format_no_entity_called")

(***************************************************************************)
(* http_request                                                            *)
(***************************************************************************)
\* the keys (object_type, request) of self.url
SupportedRequests ==
    { <<"allFunctions", "GET">>,
      <<"constants", "GET">>, <<"constants", "PUT">>, <<"constants", "POST">>,
      <<"defaultConstants", "GET">>, <<"defaultConstants", "POST">>,
      <<"defaultConstants", "PUT">>, <<"defaultConstants", "DELETE">>,
      <<"dataItem", "PUT">>,
      <<"allEntityTypes", "GET">>,
      <<"entityType", "POST">>, <<"entityType", "GET">>,
      <<"engineInput", "GET">>,
      <<"function", "GET">>, <<"function", "DELETE">>, <<"function", "PUT">>,
      <<"granularitySet", "POST">>, <<"granularitySet", "DELETE">>,
      <<"granularitySet", "GET">>,
      <<"kpiFunctions", "POST">>,
      <<"kpiFunction", "POST">>, <<"kpiFunction", "DELETE">>,
      <<"kpiFunction", "GET">>, <<"kpiFunction", "PUT">> }

\* the keys whose url has object_name in it
UrlsWithObjectName ==
    { <<"constants", "GET">>, <<"dataItem", "PUT">>, <<"entityType", "GET">>,
      <<"engineInput", "GET">>,
      <<"function", "GET">>, <<"function", "DELETE">>, <<"function", "PUT">>,
      <<"granularitySet", "POST">>, <<"granularitySet", "DELETE">>,
      <<"granularitySet", "GET">>,
      <<"kpiFunctions", "POST">>,
      <<"kpiFunction", "POST">>, <<"kpiFunction", "DELETE">>,
      <<"kpiFunction", "GET">>, <<"kpiFunction", "PUT">> }

\* the keys whose url ends with object_name_2
UrlsWithObjectName2 ==
    { <<"dataItem", "PUT">>, <<"granularitySet", "DELETE">>,
      <<"kpiFunction", "DELETE">>, <<"kpiFunction", "PUT">> }

\* self.url[(object_type, request)]: the route and the names joined into it
Url(object_type, request, object_name, object_name_2) ==
    [route |-> <<object_type, request>>,
     object_name |->
         IF <<object_type, request>> \in UrlsWithObjectName
         THEN object_name ELSE "",
     object_name_2 |->
         IF <<object_type, request>> \in UrlsWithObjectName2
         THEN object_name_2 ELSE ""]

\* json.dumps(payload).encode('utf-8')
EncodedPayload(payload) == [json |-> payload]

\* if object_name is None: object_name = ''; the same for payload
OrEmpty(v) == IF v = None THEN "" ELSE v

\* the call self.http.request(request, url, body, headers) and r.status of
\* its answer (NoStatus when the call raised)
NoStatus == 0

HttpCall(request, url, body, status) ==
    [fn |-> "http.request", method |-> request, url |-> url, body |-> body,
     status |-> status]

\* a retry that does not look at the request method
RetryAsPutAnyRequest(request, object_type, status) ==
    /\ object_type \in {"kpiFunction", "defaultConstants", "constants"}
    /\ 500 <= status /\ status <= 599

\* the elif that re-sends the request as a PUT
RetryAsPut(request, object_type, status) ==
    /\ request = "POST"
    /\ object_type \in {"kpiFunction", "defaultConstants", "constants"}
    /\ 500 <= status /\ status <= 599

\* the arguments of one invocation of http_request, after the defaults
HttpFrame(object_type, object_name, request, payload, object_name_2, raise_error) ==
    [object_type |-> object_type, object_name |-> OrEmpty(object_name),
     request |-> request, payload |-> OrEmpty(payload),
     object_name_2 |-> object_name_2, raise_error |-> raise_error]

\* the recursive invocation: the same arguments with request = 'PUT'
PutFrame(f) ==
    HttpFrame(f.object_type, f.object_name, "PUT", f.payload, f.object_name_2,
              f.raise_error)

\* what one invocation does once the server has answered with status: it
\* returns the response, raises, or calls itself with request 'PUT' and
\* returns what that invocation returns
AfterResponse(f, status) ==
    IF 200 <= status /\ status <= 299
    THEN [at |-> "done", ret |-> [ok |-> TRUE, response |-> status]]
    ELSE IF RetryAsPut(f.request, f.object_type, status)
    THEN [at |-> "send", frame |-> PutFrame(f)]
    ELSE IF f.raise_error
    THEN [at |-> "done", ret |-> Raise("HTTPError", "status")]
    ELSE [at |-> "done", ret |-> [ok |-> TRUE, response |-> status]]

(***************************************************************************)
(* State machine.  A behaviour is one call on a fresh Database: the        *)
(* initial state holds the call and its arguments (call), the rows of the  *)
(* fact table (rows) and the Database's session; the action of the called  *)
(* method runs it and stores what it returns or raises (result).           *)
(***************************************************************************)
Pending == [ok |-> FALSE, exc |-> "", at |-> "pending"]

IsPending == result = Pending

InitItem ==
    /\ \E column_name \in ItemColumns, aggregate \in AggKinds \cup OtherKinds,
          alias_column \in ItemAliases, dimension \in Dimensions,
          timestamp_col \in TimestampCols :
           call = [op |-> "_aggregate_item", column_name |-> column_name,
                   aggregate |-> aggregate, alias_column |-> alias_column,
                   dimension |-> dimension, timestamp_col |-> timestamp_col]
    /\ result = Pending
    /\ session = "None"
    /\ pc = "call"
    /\ log = <<>>
    /\ entity_type_metadata = <<>>
    /\ rows = {}

InitAgg ==
    /\ \/ \E agg_dict \in AggDicts, agg_outputs \in AggOutputs,
             groupby \in GroupBys, timestamp \in TimestampCols,
             time_grain \in TimeGrains, dimension \in Dimensions,
             start_ts \in StartTs, end_ts \in EndTs, entities \in EntitySets :
              call = [op |-> "query_agg", agg_dict |-> agg_dict,
                      agg_outputs |-> agg_outputs, groupby |-> groupby,
                      timestamp |-> timestamp, time_grain |-> time_grain,
                      dimension |-> dimension, start_ts |-> start_ts,
                      end_ts |-> end_ts, entities |-> entities]
       \/ \E column \in ItemColumns, aggregate \in AggKinds \cup OtherKinds,
             start_ts \in StartTs, end_ts \in EndTs, entities \in EntitySets :
              call = [op |-> "query_column_aggregate", column |-> column,
                      aggregate |-> aggregate, start_ts |-> start_ts,
                      end_ts |-> end_ts, entities |-> entities]
    /\ result = Pending
    /\ session = "None"
    /\ pc = "call"
    /\ log = <<>>
    /\ entity_type_metadata = <<>>
    /\ rows = {}

InitTimeAgg ==
    /\ \E column \in TimeAggColumns, regular_agg \in RegularAggs,
          time_agg \in TimeAggs, groupby \in TimeAggGroupBys,
          timestamp \in TimestampCols, time_grain \in TimeGrains,
          dimension \in Dimensions, start_ts \in StartTs, end_ts \in EndTs,
          entities \in EntitySets :
           call = [op |-> "query_time_agg", column |-> column,
                   regular_agg |-> regular_agg, time_agg |-> time_agg,
                   groupby |-> groupby, timestamp |-> timestamp,
                   time_grain |-> time_grain, dimension |-> dimension,
                   start_ts |-> start_ts, end_ts |-> end_ts,
                   entities |-> entities]
    /\ result = Pending
    /\ session = "None"
    /\ pc = "call"
    /\ log = <<>>
    /\ entity_type_metadata = <<>>
    /\ rows = {}

InitTimeAggData ==
    /\ \E regular_agg \in DataRegularAggs, time_agg \in {"first", "last"},
          groupby \in DataGroupBys, time_grain \in DataGrains,
          dimension \in Dimensions :
           call = [op |-> "query_time_agg", column |-> "temp",
                   regular_agg |-> [form |-> "str", aggs |-> <<regular_agg>>],
                   time_agg |-> time_agg, groupby |-> groupby,
                   timestamp |-> "evt_timestamp", time_grain |-> time_grain,
                   dimension |-> dimension, start_ts |-> NoTs,
                   end_ts |-> NoTs, entities |-> NoEntities]
    /\ result = Pending
    /\ session = "None"
    /\ pc = "call"
    /\ log = <<>>
    /\ entity_type_metadata = <<>>
    /\ rows \in RowSets

InitEntity ==
    /\ \E name \in EntityNames \cup MetricTableNames \cup {"Unknown"} :
           call = [op |-> "get_entity_type", name |-> name]
    /\ result = Pending
    /\ session = "None"
    /\ rows = {}
    /\ pc = "call"
    /\ log = <<>>
    /\ entity_type_metadata \in EntityCaches

\* time grains of the read_agg calls: none, push-down grains, a pandas
\* frequency and one that is neither
ReadGrains ==
    {NoGrain, <<"1", "5", "m", "i", "n">>, <<"d", "a", "y">>,
     <<"W", "-", "M", "O", "N">>}

InitReadAgg ==
    /\ \E agg_dict \in AggDicts, agg_outputs \in AggOutputs,
          groupby \in GroupBys, timestamp \in TimestampCols,
          time_grain \in ReadGrains, dimension \in Dimensions,
          start_ts \in StartTs :
           call = [op |-> "read_agg", agg_dict |-> agg_dict,
                   agg_outputs |-> agg_outputs, groupby |-> groupby,
                   timestamp |-> timestamp, time_grain |-> time_grain,
                   dimension |-> dimension, start_ts |-> start_ts,
                   end_ts |-> NoTs, entities |-> NoEntities]
    /\ result = Pending
    /\ session = "None"
    /\ rows = {}
    /\ pc = [at |-> "assemble"]
    /\ log = <<>>
    /\ entity_type_metadata = <<>>

\* inputs of http_request; the statuses the server answers with; the calls
\* a run may make are capped at MaxCalls
HttpObjectTypes ==
    {"kpiFunction", "defaultConstants", "constants", "function", "entityType",
     "dataItem", "bogus"}
HttpRequests == {"GET", "POST", "PUT", "DELETE"}
HttpStatuses == {200, 302, 404, 500, 503}
MaxCalls == 4

InitHttp ==
    /\ \E object_type \in HttpObjectTypes, object_name \in {None, "e1"},
          request \in HttpRequests, payload \in {None, "p"},
          raise_error \in BOOLEAN, tenant_id \in {None, "t1"} :
           /\ call = [op |-> "http_request", tenant_id |-> tenant_id,
                      object_type |-> object_type,
                      object_name |-> object_name, request |-> request,
                      payload |-> payload, object_name_2 |-> "k1",
                      raise_error |-> raise_error]
           /\ pc = [at |-> "send",
                    frame |-> HttpFrame(object_type, object_name, request,
                                        payload, "k1", raise_error)]
    /\ result = Pending
    /\ session = "None"
    /\ rows = {}
    /\ log = <<>>
    /\ entity_type_metadata = <<>>

\* self.session before a call: None, or a session opened earlier
Sessions == {"None", "Open"}

\* calls of the three query-building methods on a Database with or without
\* a session
InitSession ==
    /\ \/ \E agg_dict \in AggDicts, groupby \in GroupBys,
             timestamp \in TimestampCols, time_grain \in ReadGrains,
             dimension \in Dimensions :
              call = [op |-> "query_agg", agg_dict |-> agg_dict,
                      agg_outputs |-> [isNone |-> FALSE, d |-> <<>>],
                      groupby |-> groupby, timestamp |-> timestamp,
                      time_grain |-> time_grain, dimension |-> dimension,
                      start_ts |-> NoTs, end_ts |-> NoTs,
                      entities |-> NoEntities]
       \/ \E column \in TimeAggColumns, time_agg \in TimeAggs,
             groupby \in TimeAggGroupBys, time_grain \in ReadGrains,
             dimension \in Dimensions :
              call = [op |-> "query_time_agg", column |-> column,
                      regular_agg |-> [form |-> "str", aggs |-> <<"sum">>],
                      time_agg |-> time_agg, groupby |-> groupby,
                      timestamp |-> "evt_timestamp",
                      time_grain |-> time_grain, dimension |-> dimension,
                      start_ts |-> NoTs, end_ts |-> NoTs,
                      entities |-> NoEntities]
       \/ \E left_query \in LeftQueries, right_query \in RightQueries,
             args \in JoinKeys, kwargs \in RightAliases :
              call = [op |-> "subquery_join", left_query |-> left_query,
                      right_query |-> right_query, args |-> args,
                      kwargs |-> kwargs]
    /\ result = Pending
    /\ session \in Sessions
    /\ rows = {}
    /\ pc = "call"
    /\ log = <<>>
    /\ entity_type_metadata = <<>>

(***************************************************************************)
(* Threads calling query_agg / query_time_agg on one Database.  The calls  *)
(* are call.calls[t]; result and pc are functions of the thread; and       *)
(* pc[t].todo is what is left of the thread's accesses to self.session:    *)
(* "start" is a call of start_session, "use" a read of self.session by     *)
(* self.session.query.                                                     *)
(***************************************************************************)
MaxThreads == 2
Threads == 1..MaxThreads

\* the accesses of one query_agg, given what it returns when run alone: none
\* when it raises before start_session; start_session and session.query for
\* a push-down plan; start_session, then self.query's start_session and
\* session.query, for a fallback plan
QueryAggAccesses(o) ==
    IF o.session = "None" THEN <<>>
    ELSE IF o.ret.ok /\ o.ret.pandas_aggregate = None THEN <<"start", "use">>
    ELSE <<"start", "start", "use">>

\* the two rollups of query_time_agg, each run alone
RegularRollup(c) ==
    query_agg("None", "table",
              <<[col |-> c.column, form |-> c.regular_agg.form,
                 aggs |-> c.regular_agg.aggs]>>,
              NoOutputs, c.groupby, c.timestamp, Chars(c.timestamp),
              c.dimension, c.start_ts, c.end_ts, c.entities)

ExtremeRollup(c) ==
    query_agg("None", "table",
              <<One(c.timestamp, IF c.time_agg = "first" THEN "min" ELSE "max")>>,
              NoOutputs, c.groupby, c.timestamp, c.time_grain, None,
              c.start_ts, c.end_ts, c.entities)

\* the accesses to self.session of call c, in program order
SessionAccesses(c) ==
    IF c.op = "query_agg"
    THEN QueryAggAccesses(
             query_agg("None", "table", c.agg_dict, c.agg_outputs, c.groupby,
                       c.timestamp, c.time_grain, c.dimension, c.start_ts,
                       c.end_ts, c.entities))
    ELSE QueryAggAccesses(RegularRollup(c))
         \o (IF /\ RegularRollup(c).ret.ok
                /\ RegularRollup(c).ret.pandas_aggregate \in {None, ""}
                /\ c.time_agg \in {"first", "last"}
             THEN QueryAggAccesses(ExtremeRollup(c))
             ELSE <<>>)

\* what call c returns or raises on a Database no other thread uses
RunAlone(c) ==
    IF c.op = "query_agg"
    THEN query_agg("None", "table", c.agg_dict, c.agg_outputs, c.groupby,
                   c.timestamp, c.time_grain, c.dimension, c.start_ts,
                   c.end_ts, c.entities).ret
    ELSE query_time_agg("None", "table", c.column, c.regular_agg, c.time_agg,
                        c.groupby, c.timestamp, c.time_grain, c.dimension,
                        c.start_ts, c.end_ts, c.entities).ret

\* the calls the threads make: push-down and fallback plans, a call that
\* raises before start_session, and query_time_agg calls that return, that
\* raise after the first rollup and that raise in the second
ThreadCalls ==
    {[op |-> "query_agg", agg_dict |-> <<One(col, "mean")>>,
      agg_outputs |-> NoOutputs, groupby |-> [form |-> "none", names |-> <<>>],
      timestamp |-> "evt_timestamp", time_grain |-> g, dimension |-> None,
      start_ts |-> NoTs, end_ts |-> NoTs, entities |-> NoEntities] :
         col \in {"temp", "nope"},
         g \in {<<"d", "a", "y">>, <<"W", "-", "M", "O", "N">>}}
    \cup
    {[op |-> "query_time_agg", column |-> "temp",
      regular_agg |-> [form |-> "str", aggs |-> <<"sum">>],
      time_agg |-> ta, groupby |-> [form |-> "list", names |-> <<gb>>],
      timestamp |-> "evt_timestamp", time_grain |-> <<"d", "a", "y">>,
      dimension |-> "dim", start_ts |-> NoTs, end_ts |-> NoTs,
      entities |-> NoEntities] :
         ta \in {"last", "middle"}, gb \in {"deviceid", "site"}}

InitThreads ==
    /\ \E calls \in [Threads -> ThreadCalls] :
           /\ call = [op |-> "threads", calls |-> calls]
           /\ pc = [t \in Threads |->
                       [todo |-> SessionAccesses(calls[t]),
                        create |-> "unset"]]
    /\ result = [t \in Threads |-> Pending]
    /\ session \in Sessions
    /\ rows = {}
    /\ log = <<>>
    /\ entity_type_metadata = <<>>

InitNotNull ==
    /\ \E column \in ItemColumns, dimension \in Dimensions :
           call = [op |-> "_is_not_null", column |-> column,
                   dimension |-> dimension]
    /\ result = Pending
    /\ session = "None"
    /\ pc = "call"
    /\ log = <<>>
    /\ entity_type_metadata = <<>>
    /\ rows = {}

InitRounded ==
    /\ \/ \E minutes \in MinuteSizes :
              call = [op |-> "_ts_col_rounded_to_minutes",
                      column_name |-> "evt_timestamp", n |-> minutes,
                      label |-> "evt_timestamp"]
       \/ \E hours \in HourSizes :
              call = [op |-> "_ts_col_rounded_to_hours",
                      column_name |-> "evt_timestamp", n |-> hours,
                      label |-> "evt_timestamp"]
    /\ result = Pending
    /\ session = "None"
    /\ pc = "call"
    /\ log = <<>>
    /\ entity_type_metadata = <<>>
    /\ \E t \in RoundedTimestamps : rows = {Row(t, 1, 1)}

InitJoin ==
    /\ \E left_query \in LeftQueries, right_query \in RightQueries,
          args \in JoinKeys, kwargs \in RightAliases :
           call = [op |-> "subquery_join", left_query |-> left_query,
                   right_query |-> right_query, args |-> args,
                   kwargs |-> kwargs]
    /\ result = Pending
    /\ session = "None"
    /\ pc = "call"
    /\ log = <<>>
    /\ entity_type_metadata = <<>>
    /\ rows = {}

\* Database._aggregate_item on the fact table
AggregateItem ==
    /\ call.op = "_aggregate_item"
    /\ IsPending
    /\ result' = _aggregate_item(
                     get_table("table").table, call.column_name,
                     call.aggregate, call.alias_column,
                     IF call.dimension = None THEN NoTable
                     ELSE get_table(call.dimension).table,
                     call.timestamp_col)
    /\ UNCHANGED <<call, session, rows, pc, log, entity_type_metadata>>

\* Database._is_not_null on the fact table
IsNotNull ==
    /\ call.op = "_is_not_null"
    /\ IsPending
    /\ result' = _is_not_null(
                     get_table("table").table,
                     IF call.dimension = None THEN NoTable
                     ELSE get_table(call.dimension).table,
                     call.column)
    /\ UNCHANGED <<call, session, rows, pc, log, entity_type_metadata>>

\* Database._ts_col_rounded_to_minutes on the fact table
TsColRoundedToMinutes ==
    /\ call.op = "_ts_col_rounded_to_minutes"
    /\ IsPending
    /\ result' = Then(get_table("table"), LAMBDA a :
                      _ts_col_rounded(a.table, "minutes", call.column_name,
                                      call.n, call.label))
    /\ UNCHANGED <<call, session, rows, pc, log, entity_type_metadata>>

\* Database._ts_col_rounded_to_hours on the fact table
TsColRoundedToHours ==
    /\ call.op = "_ts_col_rounded_to_hours"
    /\ IsPending
    /\ result' = Then(get_table("table"), LAMBDA a :
                      _ts_col_rounded(a.table, "hours", call.column_name,
                                      call.n, call.label))
    /\ UNCHANGED <<call, session, rows, pc, log, entity_type_metadata>>

\* Database.subquery_join
SubqueryJoin ==
    /\ call.op = "subquery_join"
    /\ IsPending
    /\ result' = subquery_join(call.left_query, call.right_query, call.args,
                               call.kwargs)
    /\ UNCHANGED <<call, session, rows, pc, log, entity_type_metadata>>

\* the method returned or raised o.ret and left the session o.session
Return(o) ==
    /\ result' = o.ret
    /\ session' = o.session
    /\ UNCHANGED <<call, rows, pc, log, entity_type_metadata>>

\* Database.query_agg
QueryAgg ==
    /\ call.op = "query_agg"
    /\ IsPending
    /\ Return(query_agg(session, "table", call.agg_dict, call.agg_outputs,
                        call.groupby, call.timestamp, call.time_grain,
                        call.dimension, call.start_ts, call.end_ts,
                        call.entities))

\* (query, table) of query_agg's tuple
QueryAndTable(o) ==
    IF o.ret.ok
    THEN Outcome([ok |-> TRUE, query |-> o.ret.query, table |-> o.ret.table,
                  pandas_aggregate |-> o.ret.pandas_aggregate],
                 o.session)
    ELSE o

\* Database.query_column_aggregate: query_agg on {column: aggregate} without
\* timestamp, time grain, group-by or dimension; returns (query, table)
QueryColumnAggregate ==
    /\ call.op = "query_column_aggregate"
    /\ IsPending
    /\ Return(QueryAndTable(
           query_agg(session, "table", <<One(call.column, call.aggregate)>>,
                     NoOutputs, [form |-> "none", names |-> <<>>], None,
                     NoGrain, None, call.start_ts, call.end_ts,
                     call.entities)))

\* Database.query_time_agg
QueryTimeAgg ==
    /\ call.op = "query_time_agg"
    /\ IsPending
    /\ Return(query_time_agg(session, "table", call.column, call.regular_agg,
                             call.time_agg, call.groupby, call.timestamp,
                             call.time_grain, call.dimension, call.start_ts,
                             call.end_ts, call.entities))

\* Database.get_entity_type
GetEntityType ==
    /\ call.op = "get_entity_type"
    /\ IsPending
    /\ result' = get_entity_type(entity_type_metadata, call.name)
    /\ UNCHANGED <<call, session, rows, pc, log, entity_type_metadata>>

\* read_agg going on to the execution whatever query_agg returned or raised
AfterAssemblyAlwaysExecute(ret) ==
    [at |-> "execute", query |-> IF ret.ok THEN ret.query ELSE None,
     pandas_aggregate |-> IF ret.ok THEN ret.pandas_aggregate ELSE None,
     agg_dict |-> IF ret.ok THEN ret.agg_dict ELSE <<>>]

\* read_agg after self.query_agg(...): an exception of query_agg leaves
\* read_agg; otherwise query, pandas_aggregate and agg_dict of the returned
\* tuple are bound and the next statement is the execution
AfterAssembly(ret) ==
    IF ret.ok
    THEN [at |-> "execute", query |-> ret.query,
          pandas_aggregate |-> ret.pandas_aggregate, agg_dict |-> ret.agg_dict]
    ELSE [at |-> "done"]

\* read_agg, first statement: the plan is assembled by query_agg
ReadAggAssemble ==
    /\ call.op = "read_agg"
    /\ pc.at = "assemble"
    /\ LET o == query_agg(session, "table", call.agg_dict, call.agg_outputs,
                          call.groupby, call.timestamp, call.time_grain,
                          call.dimension, call.start_ts, call.end_ts,
                          call.entities)
       IN  /\ session' = o.session
           /\ result' = IF o.ret.ok THEN result ELSE o.ret
           /\ pc' = AfterAssembly(o.ret)
    /\ UNCHANGED <<call, rows, log, entity_type_metadata>>

\* the call pd.read_sql(sql, con) as the execution layer sees it
ReadSql(sql) == [fn |-> "read_sql", sql |-> sql]

\* the call resample(df, time_frequency, timestamp, dimensions, agg)
Resample(df, time_frequency, timestamp, dimensions, agg) ==
    [fn |-> "resample", df |-> df, time_frequency |-> time_frequency,
     timestamp |-> timestamp, dimensions |-> dimensions, agg |-> agg]

\* the data frame pd.read_sql returns for the statement
DataFrame(sql) == [sql |-> sql, resampled |-> FALSE]

\* a read_agg that resamples every data frame
NeedsResampleAlways(pandas_aggregate) == TRUE

\* if pandas_aggregate is not None
NeedsResample(pandas_aggregate) == pandas_aggregate # None

\* read_agg, pd.read_sql: the statement is executed; the database answers
\* with the rows or with an error; with the rows, the resampler is next when
\* pandas_aggregate is not None, else df is returned
ReadAggExecute ==
    /\ call.op = "read_agg"
    /\ pc.at = "execute"
    /\ log' = Append(log, ReadSql(pc.query))
    /\ \/ /\ result' = Raise("DatabaseError", "read_sql")
          /\ pc' = [at |-> "done"]
       \/ /\ NeedsResample(pc.pandas_aggregate)
          /\ result' = result
          /\ pc' = [pc EXCEPT !.at = "resample"]
       \/ /\ ~NeedsResample(pc.pandas_aggregate)
          /\ result' = IF IsPending
                       THEN [ok |-> TRUE, df |-> DataFrame(pc.query)]
                       ELSE result
          /\ pc' = [at |-> "done"]
    /\ UNCHANGED <<call, session, rows, entity_type_metadata>>

\* read_agg, resample(...) and return df
ReadAggResample ==
    /\ call.op = "read_agg"
    /\ pc.at = "resample"
    /\ log' = Append(log, Resample(DataFrame(pc.query), pc.pandas_aggregate,
                                   call.timestamp, call.groupby, pc.agg_dict))
    /\ result' = IF IsPending
                 THEN [ok |-> TRUE,
                       df |-> [sql |-> pc.query, resampled |-> TRUE]]
                 ELSE result
    /\ pc' = [at |-> "done"]
    /\ UNCHANGED <<call, session, rows, entity_type_metadata>>

\* one invocation of Database.http_request: the tenant check, the url
\* lookup, the call self.http.request, which the server answers with a
\* status or which raises, and the branch on the status
HttpRequest ==
    /\ call.op = "http_request"
    /\ pc.at = "send"
    /\ Len(log) < MaxCalls
    /\ LET f == pc.frame
       IN  IF call.tenant_id = None
           THEN /\ result' = Raise("ValueError", "tenant_id_not_set")
                /\ pc' = [at |-> "done"]
                /\ log' = log
           ELSE IF <<f.object_type, f.request>> \notin SupportedRequests
           THEN /\ result' = Raise("ValueError", "combination_not_supported")
                /\ pc' = [at |-> "done"]
                /\ log' = log
           ELSE LET url == Url(f.object_type, f.request, f.object_name,
                               f.object_name_2)
                    body == EncodedPayload(f.payload)
                IN  \/ /\ log' = Append(log, HttpCall(f.request, url, body,
                                                      NoStatus))
                       /\ result' = Raise("MaxRetryError", "http.request")
                       /\ pc' = [at |-> "done"]
                    \/ \E status \in HttpStatuses :
                           /\ log' = Append(log, HttpCall(f.request, url,
                                                         body, status))
                           /\ result' = IF AfterResponse(f, status).at = "done"
                                        THEN AfterResponse(f, status).ret
                                        ELSE result
                           /\ pc' = IF AfterResponse(f, status).at = "done"
                                    THEN [at |-> "done"]
                                    ELSE AfterResponse(f, status)
    /\ UNCHANGED <<call, session, rows, entity_type_metadata>>

\* start_session, the test: if self.session is None
ThreadCheck(t) ==
    /\ call.op = "threads"
    /\ result[t] = Pending
    /\ pc[t].todo # <<>>
    /\ Head(pc[t].todo) = "start"
    /\ pc[t].create = "unset"
    /\ pc' = [pc EXCEPT ![t].create = IF session = "None" THEN "yes" ELSE "no"]
    /\ UNCHANGED <<call, result, session, rows, log, entity_type_metadata>>

\* a start_session that drops a session it finds
SessionAfterStartDropping(create, s) == IF create = "yes" THEN "Session" ELSE "None"

\* self.session after start_session: assigned when the test was true
SessionAfterStart(create, s) == IF create = "yes" THEN "Session" ELSE s

\* start_session, after the test: self.session = self.Session()
ThreadAssign(t) ==
    /\ call.op = "threads"
    /\ result[t] = Pending
    /\ pc[t].todo # <<>>
    /\ Head(pc[t].todo) = "start"
    /\ pc[t].create # "unset"
    /\ session' = SessionAfterStart(pc[t].create, session)
    /\ log' = IF pc[t].create = "yes"
              THEN Append(log, [fn |-> "Session", thread |-> t])
              ELSE log
    /\ pc' = [pc EXCEPT ![t] = [todo |-> Tail(@.todo), create |-> "unset"]]
    /\ UNCHANGED <<call, result, rows, entity_type_metadata>>

\* self.session.query(...): an AttributeError when self.session is None
ThreadUse(t) ==
    /\ call.op = "threads"
    /\ result[t] = Pending
    /\ pc[t].todo # <<>>
    /\ Head(pc[t].todo) = "use"
    /\ IF session = "None"
       THEN /\ result' = [result EXCEPT
                             ![t] = Raise("AttributeError", "session_is_none")]
            /\ pc' = [pc EXCEPT ![t].todo = <<>>]
       ELSE /\ result' = result
            /\ pc' = [pc EXCEPT ![t].todo = Tail(@)]
    /\ UNCHANGED <<call, session, rows, log, entity_type_metadata>>

\* the call returns its plan or raises its own exception
ThreadReturn(t) ==
    /\ call.op = "threads"
    /\ result[t] = Pending
    /\ pc[t].todo = <<>>
    /\ result' = [result EXCEPT ![t] = RunAlone(call.calls[t])]
    /\ UNCHANGED <<call, session, rows, pc, log, entity_type_metadata>>

ThreadStep ==
    \E t \in Threads :
        ThreadCheck(t) \/ ThreadAssign(t) \/ ThreadUse(t) \/ ThreadReturn(t)

\* Database.commit called by another thread: the session is committed,
\* closed and set to None
Commit ==
    /\ call.op = "threads"
    /\ session # "None"
    /\ session' = "None"
    /\ UNCHANGED <<call, result, rows, pc, log, entity_type_metadata>>

Init ==
    InitItem \/ InitNotNull \/ InitRounded \/ InitJoin \/ InitAgg \/ InitTimeAgg \/ InitTimeAggData
    \/ InitEntity \/ InitReadAgg \/ InitHttp \/ InitSession
    \/ InitThreads

Next ==
    \/ AggregateItem
    \/ IsNotNull
    \/ TsColRoundedToMinutes
    \/ TsColRoundedToHours
    \/ SubqueryJoin
    \/ QueryAgg
    \/ QueryColumnAggregate
    \/ QueryTimeAgg
    \/ GetEntityType
    \/ ReadAggAssemble
    \/ ReadAggExecute
    \/ ReadAggResample
    \/ HttpRequest
    \/ ThreadStep
    \/ Commit

Spec == Init /\ [][Next]_vars

SpecEntity == InitEntity /\ [][GetEntityType]_vars

SpecReadAgg ==
    InitReadAgg /\ [][ReadAggAssemble \/ ReadAggExecute \/ ReadAggResample]_vars

SpecHttp == InitHttp /\ [][HttpRequest]_vars /\ WF_vars(HttpRequest)

SpecSession ==
    InitSession /\ [][QueryAgg \/ QueryTimeAgg \/ SubqueryJoin]_vars

SpecThreads == InitThreads /\ [][ThreadStep]_vars

SpecThreadsCommit == InitThreads /\ [][ThreadStep \/ Commit]_vars

SpecItem == InitItem /\ [][AggregateItem]_vars

SpecResolve == (InitItem \/ InitNotNull) /\ [][AggregateItem \/ IsNotNull]_vars

SpecRounded ==
    InitRounded /\ [][TsColRoundedToMinutes \/ TsColRoundedToHours]_vars

SpecJoin == InitJoin /\ [][SubqueryJoin]_vars

SpecAgg == InitAgg /\ [][QueryAgg \/ QueryColumnAggregate]_vars

SpecTimeAgg == InitTimeAgg /\ [][QueryTimeAgg]_vars

SpecTimeAggData == InitTimeAggData /\ [][QueryTimeAgg]_vars

(***************************************************************************)
(* Properties of _aggregate_item (SpecItem)                                *)
(***************************************************************************)
IsItemCall == call.op = "_aggregate_item" /\ ~IsPending

\* C7: alias policy of _aggregate_item for a supported kind: an explicit
\* alias is used unchanged; without an alias a column other than the
\* timestamp column is labelled with its own name, and the timestamp column
\* is labelled first_<timestamp> for min and last_<timestamp> for max.
C7_AliasPolicy ==
    (IsItemCall /\ result.ok) =>
        /\ call.alias_column # None => result.col.label = call.alias_column
        /\ (call.alias_column = None /\ call.column_name # call.timestamp_col)
               => result.col.label = call.column_name
        /\ (call.alias_column = None /\ call.column_name = call.timestamp_col
            /\ call.aggregate = "min")
               => result.col.label = "first_" \o call.timestamp_col
        /\ (call.alias_column = None /\ call.column_name = call.timestamp_col
            /\ call.aggregate = "max")
               => result.col.label = "last_" \o call.timestamp_col

C7_Witness ==
    /\ IsItemCall
    /\ call.alias_column = None
    /\ call.column_name = "evt_timestamp"
    /\ call.timestamp_col = "evt_timestamp"
    /\ call.aggregate = "max"
    /\ result.ok
    /\ result.col.label = "last_evt_timestamp"

\* C8: without an alias, the timestamp column aggregated with a kind other
\* than min and max is labelled <aggregate_kind>_<timestamp_column>.
C8_KindPrefixedTimestampAlias ==
    (IsItemCall /\ result.ok /\ call.alias_column = None
     /\ call.column_name = call.timestamp_col
     /\ call.aggregate \in {"count", "mean", "std", "sum"})
        => result.col.label = call.aggregate \o "_" \o call.timestamp_col

\* C10: _aggregate_item raises the unsupported-aggregate ValueError exactly
\* for the kinds outside {count, max, mean, min, std, sum}, whatever the
\* column and the alias.
C10_UnsupportedAggregate ==
    IsItemCall =>
        ((~result.ok /\ result.exc = "ValueError"
          /\ result.at = "unsupported_aggregate")
         <=> call.aggregate \notin {"count", "max", "mean", "min", "std", "sum"})

C10_Witness ==
    /\ IsItemCall
    /\ call.aggregate = "median"
    /\ call.column_name = "nope"
    /\ call.alias_column = "out"
    /\ ~result.ok
    /\ result.exc = "ValueError"

(***************************************************************************)
(* Properties of query_agg (SpecAgg)                                       *)
(***************************************************************************)
IsAggCall ==
    call.op \in {"query_agg", "query_column_aggregate"} /\ ~IsPending

IsQueryAggCall == call.op = "query_agg" /\ ~IsPending

HasFilter(q, op) == \E i \in 1..Len(q.where) : q.where[i].op = op

\* C1: a plan assembled for an absent or push-down time grain carries the
\* filters timestamp >= start_ts, timestamp < end_ts and deviceid IN
\* entities for each of them that is given, besides the OR'd not-null filter.
C1_PushDownDateEntityFilters ==
    (IsAggCall /\ result.ok /\ result.pandas_aggregate = None) =>
        /\ HasFilter(result.query, "or")
        /\ call.start_ts # NoTs =>
               \E i \in 1..Len(result.query.where) :
                   /\ result.query.where[i].op = "ge"
                   /\ result.query.where[i].val = call.start_ts
        /\ call.end_ts # NoTs =>
               \E i \in 1..Len(result.query.where) :
                   /\ result.query.where[i].op = "lt"
                   /\ result.query.where[i].val = call.end_ts
        /\ call.entities # NoEntities =>
               \E i \in 1..Len(result.query.where) :
                   /\ result.query.where[i].op = "in"
                   /\ result.query.where[i].name = "deviceid"
                   /\ result.query.where[i].ents = call.entities

\* the text is an optionally signed decimal integer
IsIntText(s) ==
    LET body == IF s # <<>> /\ s[1] \in {"-", "+"} THEN Tail(s) ELSE s
    IN  body # <<>> /\ \A i \in 1..Len(body) : body[i] \in Digits

\* day, week, month, year, <int>min or <int>H
IsPushDownGrain(g) ==
    \/ Str(g) \in {"day", "week", "month", "year"}
    \/ /\ EndsWith(g, <<"m", "i", "n">>)
       /\ IsIntText(SubSeq(g, 1, Len(g) - 3))
    \/ /\ EndsWith(g, <<"H">>)
       /\ IsIntText(SubSeq(g, 1, Len(g) - 1))

\* C2: a grain other than the timestamp column is a push-down bucket when it
\* is day, week, month, year, <int>min or <int>H, and every other string is
\* the fallback frequency, never an error of the classification.
C2_GrainClassification ==
    (IsQueryAggCall /\ call.time_grain # NoGrain
     /\ call.timestamp # None /\ Str(call.time_grain) # call.timestamp) =>
        /\ result.ok =>
               IF IsPushDownGrain(call.time_grain)
               THEN /\ result.pandas_aggregate = None
                    /\ \E i \in 1..Len(result.query.group_by) :
                           result.query.group_by[i].k = "bucket"
               ELSE result.pandas_aggregate = Str(call.time_grain)
        /\ ~result.ok => result.at # "int_invalid_literal"

\* the positions (column, kind, i) of list-valued items without an alias
MissingAliases(agg_dict, agg_outputs) ==
    {<<agg_dict[j].col, agg_dict[j].aggs[i], i>> :
        <<j, i>> \in {p \in (1..Len(agg_dict)) \X (1..2) :
                        /\ agg_dict[p[1]].form = "list"
                        /\ p[2] <= Len(agg_dict[p[1]].aggs)
                        /\ \/ agg_outputs.isNone
                           \/ agg_dict[p[1]].col \notin DOMAIN agg_outputs.d
                           \/ p[2] > Len(agg_outputs.d[agg_dict[p[1]].col])}}

\* C3: a missing alias of a list-valued column never makes query_agg fail:
\* the position gets the alias <column>_<aggregate>, a warning is logged and
\* the plan is assembled.
C3_MissingAliasDefaults ==
    (IsQueryAggCall
     /\ MissingAliases(call.agg_dict, call.agg_outputs) # {}) =>
        /\ ~result.ok => result.exc # "TypeError"
        /\ result.ok =>
               /\ result.warnings >= 1
               /\ \A m \in MissingAliases(call.agg_dict, call.agg_outputs) :
                      \E i \in 1..Len(result.query.select) :
                          /\ result.query.select[i].k = "agg"
                          /\ result.query.select[i].name = m[1]
                          /\ result.query.select[i].label = m[1] \o "_" \o m[2]

\* C9: under default aliasing two distinct (column, kind) pairs of the
\* aggregate spec never get the same output alias in one projection.
C9_DefaultAliasesUnique ==
    (IsQueryAggCall /\ result.ok /\ ~result.query.raw
     /\ ~call.agg_outputs.isNone /\ call.agg_outputs.d = <<>>) =>
        \A i, j \in 1..Len(result.query.select) :
            (/\ result.query.select[i].k = "agg"
             /\ result.query.select[j].k = "agg"
             /\ <<result.query.select[i].name, result.query.select[i].fn>>
                    # <<result.query.select[j].name, result.query.select[j].fn>>)
                => result.query.select[i].label # result.query.select[j].label

(***************************************************************************)
(* Properties of query_time_agg (SpecTimeAgg, SpecTimeAggData)             *)
(***************************************************************************)
IsTimeAggCall == call.op = "query_time_agg" /\ ~IsPending

\* the regular rollup of the call, as query_time_agg asks query_agg for it
RegularPlan ==
    query_agg("None", "table",
              <<[col |-> call.column, form |-> call.regular_agg.form,
                 aggs |-> call.regular_agg.aggs]>>,
              NoOutputs, call.groupby, call.timestamp,
              Chars(call.timestamp), call.dimension, call.start_ts,
              call.end_ts, call.entities).ret

\* the first/last timestamp rollup of the call at the requested grain
ExtremePlan ==
    query_agg("None", "table",
              <<One(call.timestamp,
                    IF call.time_agg = "first" THEN "min" ELSE "max")>>,
              NoOutputs, call.groupby, call.timestamp, call.time_grain, None,
              call.start_ts, call.end_ts, call.entities).ret

IsFallbackPlan(p) == p.ok /\ p.pandas_aggregate # None

\* C4: query_time_agg raises the cannot-be-pushed ValueError whenever one of
\* its two aggregated plans is a fallback plan, and never joins such a plan.
C4_FallbackNotJoinable ==
    (IsTimeAggCall /\ call.time_agg \in {"first", "last"} /\ RegularPlan.ok
     /\ (IsFallbackPlan(RegularPlan) \/ IsFallbackPlan(ExtremePlan)))
        => (/\ ~result.ok
            /\ result.exc = "ValueError"
            /\ result.at = "fallback_not_joinable")

\* the bucket of timestamp t (minutes) at the grains 2min, 1H and day
ClaimBucket(g, t) ==
    CASE Str(g) = "2min" -> (t \div 2) * 2
      [] Str(g) = "1H" -> (t \div 60) * 60
      [] Str(g) = "day" -> (t \div 1440) * 1440

\* the rows the request is over: the fact rows, joined to the dimension
\* when one is given
RequestRows ==
    IF call.dimension = None THEN rows
    ELSE {r \in rows : \E d \in DimRows : d.deviceid = r.deviceid}

\* the group-by key of a fact row
RowKey(r) == [i \in 1..Len(call.groupby.names) |-> r[call.groupby.names[i]]]

\* the position of the output column named label in the joined projection
OutIndex(label) == ColumnIndex(result.query.select, label)

ExtremeLabel == call.time_agg \o "_" \o call.timestamp

\* the group-by key and the first/last timestamp of an output row
OutKey(o) ==
    [i \in 1..Len(call.groupby.names) |-> o[OutIndex(call.groupby.names[i])]]

OutExtreme(o) == o[OutIndex(ExtremeLabel)]

JoinedRows == ExecuteJoin(result.query, rows)

HasOutColumn(label) ==
    \E i \in 1..Len(result.query.select) : result.query.select[i].label = label

\* C5: the joined result of a first/last request has exactly one row for
\* every (group-by key, time bucket) that holds a source row inside the
\* filters (a row whose aggregated column is not null), carrying the regular
\* aggregate and the first_/last_ timestamp, also when the row with the
\* bucket's first/last timestamp has a null aggregated column.
C5_OneRowPerBucket ==
    (IsTimeAggCall /\ result.ok) =>
        /\ HasOutColumn(call.column)
        /\ HasOutColumn(ExtremeLabel)
        /\ \A r \in {x \in RequestRows : x.temp # NULL} :
               Cardinality({o \in JoinedRows :
                               /\ OutKey(o) = RowKey(r)
                               /\ ClaimBucket(call.time_grain, OutExtreme(o))
                                      = ClaimBucket(call.time_grain,
                                                    r.evt_timestamp)}) = 1

RECURSIVE TempSum(_)
TempSum(S) ==
    IF S = {} THEN 0
    ELSE LET r == CHOOSE x \in S : TRUE IN r.temp + TempSum(S \ {r})

\* the aggregate kind over the temp values of a set of fact rows
TempAggregate(kind, S) ==
    LET NN == {r \in S : r.temp # NULL}
    IN  CASE kind = "count" -> Cardinality(NN)
          [] kind # "count" /\ NN = {} -> NULL
          [] kind = "sum" /\ NN # {} -> TempSum(NN)
          [] kind = "max" /\ NN # {} ->
                 (CHOOSE x \in NN : \A y \in NN : y.temp <= x.temp).temp

\* C6 as claimed: the regular aggregate of an output row is taken over all
\* source rows of the row's (time bucket, group-by key).
C6_AggregatePerBucket ==
    (IsTimeAggCall /\ result.ok) =>
        \A o \in JoinedRows :
               o[OutIndex(call.column)] =
                   TempAggregate(
                       call.regular_agg.aggs[1],
                       {r \in RequestRows :
                           /\ RowKey(r) = OutKey(o)
                           /\ ClaimBucket(call.time_grain, r.evt_timestamp)
                                  = ClaimBucket(call.time_grain, OutExtreme(o))})

\* C6: the regular aggregate of query_time_agg is computed per raw
\* timestamp: the value in an output row is the aggregate over the source
\* rows whose timestamp equals the row's first_/last_ timestamp and whose
\* group-by key is the row's; the plans are joined on left timestamp = right
\* first_/last_ timestamp plus the group-by keys.
C6_AggregateAtExtremeTimestamp ==
    (IsTimeAggCall /\ result.ok) =>
        /\ result.query.on =
               <<[l |-> call.timestamp, r |-> ExtremeLabel]>>
               \o [i \in 1..Len(call.groupby.names) |->
                      [l |-> call.groupby.names[i], r |-> call.groupby.names[i]]]
        /\ \A o \in JoinedRows :
               o[OutIndex(call.column)] =
                   TempAggregate(
                       call.regular_agg.aggs[1],
                       {r \in RequestRows :
                           /\ RowKey(r) = OutKey(o)
                           /\ r.evt_timestamp = OutExtreme(o)})

\* an output row whose bucket holds another non-null row at another time
C6_Witness ==
    /\ IsTimeAggCall
    /\ result.ok
    /\ call.regular_agg.aggs[1] = "sum"
    /\ \E o \in JoinedRows : \E r \in RequestRows :
           /\ RowKey(r) = OutKey(o)
           /\ r.temp # NULL
           /\ r.evt_timestamp # OutExtreme(o)
           /\ ClaimBucket(call.time_grain, r.evt_timestamp)
                  = ClaimBucket(call.time_grain, OutExtreme(o))

(***************************************************************************)
(* Column resolution (SpecResolve)                                         *)
(***************************************************************************)
IsNotNullCall == call.op = "_is_not_null" /\ ~IsPending

\* the column of the call: column_name of _aggregate_item, column of
\* _is_not_null
CallColumn ==
    IF call.op = "_aggregate_item" THEN call.column_name ELSE call.column

InFact == CallColumn \in Range(Catalog["table"])

InDimension == call.dimension # None /\ CallColumn \in Range(Catalog[call.dimension])

\* the table the returned expression or predicate is bound to
BoundTable == IF call.op = "_aggregate_item" THEN result.col.t ELSE result.pred.t

\* the error each operation raises for a column found in neither table
IsColumnNotFound ==
    /\ ~result.ok
    /\ \/ call.op = "_aggregate_item" /\ result.exc = "KeyError"
          /\ result.at = "aggregate_column_not_present"
       \/ call.op = "_is_not_null" /\ result.exc = "ValueError"
          /\ result.at = "column_not_found"

\* the resolution rule on a finished call
ResolvedAsClaimed ==
    /\ IsColumnNotFound <=> (~InFact /\ ~InDimension)
    /\ result.ok => BoundTable = (IF InFact THEN "table" ELSE call.dimension)

\* C11 as claimed: every call of _aggregate_item and _is_not_null resolves
\* the column to the fact table first, then to the dimension, and fails with
\* the column-not-found error exactly when the column is in neither.
C11_ColumnResolution == (IsItemCall \/ IsNotNullCall) => ResolvedAsClaimed

\* C11: the same for _is_not_null and for _aggregate_item called with a
\* supported aggregate kind; with an unsupported kind _aggregate_item fails
\* with the unsupported-aggregate ValueError whatever the column.
C11_ColumnResolutionSupportedKind ==
    /\ (IsNotNullCall \/ (IsItemCall /\ call.aggregate \in DOMAIN agg_map))
           => ResolvedAsClaimed
    /\ (IsItemCall /\ call.aggregate \notin DOMAIN agg_map)
           => (~result.ok /\ result.at = "unsupported_aggregate")

\* a column of both tables resolved to the fact table
C11_Witness ==
    /\ IsItemCall \/ IsNotNullCall
    /\ InFact /\ InDimension
    /\ result.ok /\ BoundTable = "table"

(***************************************************************************)
(* The not-null filter of query_agg (SpecAgg)                              *)
(***************************************************************************)
\* the OR filters of the returned plan
OrFilters ==
    SelectSeq(result.query.where, LAMBDA f : f.op = "or")

\* the table a column of the aggregate spec resolves to
SpecColumnTable(col) ==
    IF col \in Range(Catalog["table"]) THEN "table" ELSE call.dimension

\* C12: the plan query_agg returns has one not-null filter, applied last:
\* the OR of one IS NOT NULL predicate per column key of agg_dict, in dict
\* order, whatever the number of kinds of the column; a group-by column or
\* the timestamp has a predicate only if it is a key of agg_dict, and for
\* {temp: mean} the filter is temp IS NOT NULL.
C12_NotNullFilterPerColumn ==
    (IsQueryAggCall /\ result.ok) =>
        /\ Len(OrFilters) = 1
        /\ result.query.where[Len(result.query.where)].op = "or"
        /\ OrFilters[1].preds =
               [j \in 1..Len(call.agg_dict) |->
                   [t |-> SpecColumnTable(call.agg_dict[j].col),
                    name |-> call.agg_dict[j].col]]
        /\ call.agg_dict = <<One("temp", "mean")>> =>
               OrFilters[1].preds = <<[t |-> "table", name |-> "temp"]>>

\* a plan for a column with two kinds, a second column, a time bucket and a
\* group-by column
C12_Witness ==
    /\ IsQueryAggCall
    /\ result.ok
    /\ \E j \in 1..Len(call.agg_dict) : Len(call.agg_dict[j].aggs) = 2
    /\ Len(call.agg_dict) = 2
    /\ call.groupby.names # <<>>
    /\ call.time_grain # NoGrain
    /\ Len(OrFilters[1].preds) = 2

(***************************************************************************)
(* The time grain of query_agg (SpecAgg)                                   *)
(***************************************************************************)
\* the grain is the timestamp column itself, <int>min, <int>H, day, week,
\* month or year
IsRecognizedGrain(g) == Str(g) = call.timestamp \/ IsPushDownGrain(g)

\* the group-by names of the call
GroupNames == IF call.groupby.form = "none" THEN <<>> ELSE call.groupby.names

\* the expressions on the timestamp column that open the group-by list: the
\* bucket expression of the grain, when the plan has one
BucketExpressions ==
    IF Len(result.query.group_by) > Len(GroupNames)
    THEN SubSeq(result.query.group_by, 1,
                Len(result.query.group_by) - Len(GroupNames))
    ELSE <<>>

\* C13: a plan returned for a time grain never has both a bucket expression
\* in the group-by list and a fallback frequency: the frequency is not None
\* exactly when the grain is not recognized, is then the grain unchanged and
\* the group-by list is empty; a recognized grain gives exactly one bucket
\* expression, on the timestamp column, and the frequency None.
C13_BucketOrFrequency ==
    (IsQueryAggCall /\ result.ok /\ call.time_grain # NoGrain) =>
        /\ (result.pandas_aggregate # None) <=> ~IsRecognizedGrain(call.time_grain)
        /\ ~(result.pandas_aggregate # None /\ BucketExpressions # <<>>)
        /\ ~IsRecognizedGrain(call.time_grain) =>
               /\ result.pandas_aggregate = Str(call.time_grain)
               /\ result.query.group_by = <<>>
        /\ IsRecognizedGrain(call.time_grain) =>
               /\ result.pandas_aggregate = None
               /\ Len(BucketExpressions) = 1
               /\ BucketExpressions[1].name = call.timestamp
               /\ BucketExpressions[1].k \in {"bucket", "col"}
               /\ \A i \in 1..Len(GroupNames) :
                      result.query.group_by[i + 1].name = GroupNames[i]

\* the plan of the unrecognized grain W-MON
C13_Witness ==
    /\ IsQueryAggCall
    /\ result.ok
    /\ Str(call.time_grain) = "W-MON"
    /\ result.pandas_aggregate = "W-MON"
    /\ result.query.group_by = <<>>

(***************************************************************************)
(* Minute and hour buckets (SpecRounded)                                   *)
(***************************************************************************)
\* the timestamp of the row of the table, and the value the returned
\* expression has on it
RowTimestamp == (CHOOSE r \in rows : TRUE).evt_timestamp

RoundedValue == BucketValue(result.col, RowTimestamp)

\* C14: for a bucket size N that divides 60 the expression of
\* _ts_col_rounded_to_minutes, on a timestamp with minute of the hour m, has
\* the date and hour of the timestamp and a minute that is a multiple of N,
\* at most m and more than m - N.
C14_MinuteBucketFloors ==
    (call.op = "_ts_col_rounded_to_minutes" /\ ~IsPending /\ 60 % call.n = 0) =>
        /\ result.ok
        /\ RoundedValue \div 60 = RowTimestamp \div 60
        /\ (RoundedValue % 60) % call.n = 0
        /\ RoundedValue % 60 <= RowTimestamp % 60
        /\ RoundedValue % 60 > (RowTimestamp % 60) - call.n

\* minute 59 of hour 23 in a 15 minute bucket is minute 45 of that hour
C14_Witness ==
    /\ call.op = "_ts_col_rounded_to_minutes"
    /\ ~IsPending
    /\ call.n = 15
    /\ RowTimestamp = 1440 + 23 * 60 + 59
    /\ RoundedValue = 1440 + 23 * 60 + 45

(***************************************************************************)
(* The label of the time bucket (SpecAgg)                                  *)
(***************************************************************************)
\* C15: the bucket expression of every push-down plan query_agg returns for
\* a time grain (the raw timestamp, <N>min, <N>H, day, week, month, year) is
\* labelled with the name of the timestamp column.
C15_BucketLabelIsTimestamp ==
    (IsQueryAggCall /\ result.ok /\ call.time_grain # NoGrain
     /\ result.pandas_aggregate = None) =>
        /\ Len(BucketExpressions) = 1
        /\ BucketExpressions[1].label = call.timestamp
        /\ \E i \in 1..Len(result.query.select) :
               /\ result.query.select[i] = BucketExpressions[1]
               /\ result.query.select[i].label = call.timestamp

\* the plan of the calendar grain month
C15_Witness ==
    /\ IsQueryAggCall
    /\ result.ok
    /\ Str(call.time_grain) = "month"
    /\ BucketExpressions[1].fn = "this_month"
    /\ BucketExpressions[1].label = "evt_timestamp"

(***************************************************************************)
(* Group-by resolution of query_agg (SpecAgg)                              *)
(***************************************************************************)
\* the call without its group-by list assembles: the aggregates and the
\* time grain raise nothing
AssemblesWithoutGroupBy ==
    query_agg("None", "table", call.agg_dict, call.agg_outputs,
              [form |-> "none", names |-> <<>>], call.timestamp,
              call.time_grain, call.dimension, call.start_ts, call.end_ts,
              call.entities).ret.ok

\* the table a group-by name resolves to, "" when it is in neither
GroupTable(g) ==
    IF g \in Range(Catalog["table"]) THEN "table"
    ELSE IF call.dimension # None /\ g \in Range(Catalog[call.dimension])
         THEN call.dimension
    ELSE ""

\* C16: each group-by name resolves to the fact-table column when the fact
\* table has it, else to the dimension column; a name in neither fails with
\* KeyError when no dimension is given and with ValueError when one is,
\* two different exception classes.
C16_GroupByResolution ==
    (IsQueryAggCall /\ AssemblesWithoutGroupBy) =>
        /\ result.ok <=> \A i \in 1..Len(GroupNames) : GroupTable(GroupNames[i]) # ""
        /\ (result.ok /\ result.pandas_aggregate = None) =>
               /\ Len(result.query.group_by)
                      = Len(GroupNames) + (IF call.time_grain = NoGrain THEN 0 ELSE 1)
               /\ \A i \in 1..Len(GroupNames) :
                      result.query.group_by[
                          Len(result.query.group_by) - Len(GroupNames) + i]
                          = Expr("col", "", GroupTable(GroupNames[i]),
                                 GroupNames[i], 0, GroupNames[i])
        /\ (~result.ok /\ call.dimension = None) =>
               /\ result.exc = "KeyError"
               /\ result.at = "group_by_not_in_table_no_dimension"
        /\ (~result.ok /\ call.dimension # None) =>
               /\ result.exc = "ValueError"
               /\ result.at = "group_by_not_in_table_or_dimension"

\* a name found in neither the fact table nor the given dimension
C16_Witness ==
    /\ IsQueryAggCall
    /\ AssemblesWithoutGroupBy
    /\ call.dimension = "dim"
    /\ GroupNames = <<"deviceid", "nope">>
    /\ result.exc = "ValueError"

(***************************************************************************)
(* Date filters without a timestamp column (SpecAgg)                       *)
(***************************************************************************)
\* the call assembles when the timestamp column is supplied
AssemblesWithTimestamp ==
    query_agg("None", "table", call.agg_dict, call.agg_outputs, call.groupby,
              "evt_timestamp", call.time_grain, call.dimension, call.start_ts,
              call.end_ts, call.entities).ret.ok

\* C17: with a start or end date and no timestamp column query_agg raises
\* the missing-timestamp ValueError, with and without a time grain; it
\* returns no plan.
C17_DateFilterNeedsTimestamp ==
    (IsQueryAggCall /\ (call.start_ts # NoTs \/ call.end_ts # NoTs)
     /\ call.timestamp = None /\ AssemblesWithTimestamp) =>
        /\ ~result.ok
        /\ result.exc = "ValueError"
        /\ result.at \in {"must_supply_timestamp_for_time_aggregate",
                          "no_timestamp_col_for_date_filter"}

(***************************************************************************)
(* The fallback plan of query_agg (SpecAgg)                                *)
(***************************************************************************)
\* the filters with operator op of the returned plan
FiltersOf(op) == SelectSeq(result.query.where, LAMBDA f : f.op = op)

\* C18: a plan returned with a fallback frequency has no group-by and no
\* aggregate: it selects the rows of the fact table, joined to the dimension
\* on deviceid when a dimension is given, under timestamp >= start_ts,
\* timestamp < end_ts, deviceid IN entities (each when given) and the OR of
\* the not-null predicates of the aggregated columns.
C18_FallbackPlanRawFilteredRows ==
    (IsQueryAggCall /\ result.ok /\ result.pandas_aggregate # None) =>
        /\ result.query.raw
        /\ result.query.group_by = <<>>
        /\ result.query.select[1] = Expr("entity", "", "table", "", 0, "")
        /\ \A i \in 1..Len(result.query.select) :
               result.query.select[i].k \in {"entity", "col"}
        /\ result.query.join = (call.dimension # None)
        /\ FiltersOf("ge") =
               IF call.start_ts = NoTs THEN <<>>
               ELSE <<Filter("ge", "table", call.timestamp, call.start_ts, {}, <<>>)>>
        /\ FiltersOf("lt") =
               IF call.end_ts = NoTs THEN <<>>
               ELSE <<Filter("lt", "table", call.timestamp, call.end_ts, {}, <<>>)>>
        /\ FiltersOf("in") =
               IF call.entities = NoEntities THEN <<>>
               ELSE <<Filter("in", "table", "deviceid", 0, call.entities, <<>>)>>
        /\ Len(FiltersOf("or")) = 1
        /\ FiltersOf("or")[1].preds =
               [j \in 1..Len(call.agg_dict) |->
                   [t |-> SpecColumnTable(call.agg_dict[j].col),
                    name |-> call.agg_dict[j].col]]
        /\ Len(result.query.where)
               = Len(FiltersOf("ge")) + Len(FiltersOf("lt"))
                 + Len(FiltersOf("in")) + 1

\* the fallback plan of W-MON with a date range, an entity set and a
\* dimension
C18_Witness ==
    /\ IsQueryAggCall
    /\ result.ok
    /\ result.pandas_aggregate = "W-MON"
    /\ call.start_ts # NoTs
    /\ call.end_ts # NoTs
    /\ call.entities # NoEntities
    /\ call.dimension = "dim"
    /\ Len(result.query.where) = 4

(***************************************************************************)
(* The end-to-end push-down scenario (SpecAgg)                             *)
(***************************************************************************)
\* the labels of a sequence of expressions
Labels(es) == [i \in 1..Len(es) |-> es[i].label]

\* query_agg of {pressure: [min, max], temp: mean} at grain 15min by site
IsScenarioCall ==
    /\ IsQueryAggCall
    /\ call.agg_dict = <<Many("pressure", <<"min", "max">>), One("temp", "mean")>>
    /\ Str(call.time_grain) = "15min"
    /\ GroupNames = <<"site">>
    /\ call.timestamp = "evt_timestamp"
    /\ call.dimension = "dim"

\* the plan of the scenario: a push-down plan projecting the aggregates in
\* spec order, the bucket, then the group-by column
IsScenarioPlan ==
    /\ result.ok
    /\ result.pandas_aggregate = None
    /\ Labels(result.query.select)
           = <<"pressure_min", "pressure_max", "temp", "evt_timestamp", "site">>
    /\ [i \in 1..3 |-> result.query.select[i].fn] = <<"min", "max", "avg">>
    /\ result.query.select[4].k = "bucket"
    /\ result.query.select[4].n = 15
    /\ result.query.group_by
           = <<result.query.select[4], result.query.select[5]>>

\* C19: without an alias table (agg_outputs left None) the scenario call
\* returns the scenario plan.
C19_ScenarioPlan == (IsScenarioCall /\ call.agg_outputs.isNone) => IsScenarioPlan

\* the scenario with an empty alias table, agg_outputs = {}
ScenarioPlanEmptyAliases ==
    (IsScenarioCall /\ ~call.agg_outputs.isNone /\ call.agg_outputs.d = <<>>)
        => IsScenarioPlan

(***************************************************************************)
(* The projection of subquery_join (SpecJoin)                              *)
(***************************************************************************)
IsJoinCall == call.op = "subquery_join" /\ ~IsPending

\* the column names of the left-hand query and the aliases of the map
LeftColumns == Labels(call.left_query.select)

AliasesOf(kwargs) == {kwargs[i][2] : i \in 1..Len(kwargs)}

\* C20: the join projects every right-hand column of the alias map under
\* its alias and every left-hand column whose name is no alias of the map,
\* and nothing else; with an empty map it projects exactly the left-hand
\* columns.
C20_JoinProjection ==
    (IsJoinCall /\ result.ok) =>
        /\ Range(result.query.select) =
               {JoinColumn("b", call.kwargs[i][1], call.kwargs[i][2]) :
                   i \in 1..Len(call.kwargs)}
               \cup {JoinColumn("a", c, c) :
                        c \in Range(LeftColumns) \ AliasesOf(call.kwargs)}
        /\ Len(result.query.select)
               = Len(call.kwargs)
                 + Cardinality(Range(LeftColumns) \ AliasesOf(call.kwargs))
        /\ call.kwargs = <<>> =>
               Labels(result.query.select) = LeftColumns

\* left {site, total_energy} with the right alias last_evt_timestamp
C20_Witness ==
    /\ IsJoinCall
    /\ result.ok
    /\ LeftColumns = <<"site", "total_energy">>
    /\ AliasesOf(call.kwargs) = {"last_evt_timestamp"}
    /\ Range(Labels(result.query.select))
           = {"site", "total_energy", "last_evt_timestamp"}

(***************************************************************************)
(* Output names of subquery_join (SpecJoin)                                *)
(***************************************************************************)
\* no two columns of the returned projection have the same output name
OutputNamesDistinct ==
    \A i, j \in 1..Len(result.query.select) :
        i # j => result.query.select[i].label # result.query.select[j].label

\* a left-hand column named like a right-hand alias is not projected
RightAliasWins ==
    \A i \in 1..Len(result.query.select) :
        result.query.select[i].label \in AliasesOf(call.kwargs)
            => result.query.select[i].side = "b"

\* the aliases of the map are pairwise distinct
AliasesDistinct ==
    \A i, j \in 1..Len(call.kwargs) :
        i # j => call.kwargs[i][2] # call.kwargs[j][2]

\* C21 as claimed: for every left plan, right plan and alias map that
\* subquery_join accepts, the projection has no two columns of the same
\* output name, and where a left-hand name equals a right-hand alias only
\* the right-hand column appears.
C21_OutputNamesUnique ==
    (IsJoinCall /\ result.ok) => (OutputNamesDistinct /\ RightAliasWins)

\* C21: the right-hand alias always wins over a left-hand column of that
\* name, and the output names are distinct when the aliases of the map are
\* pairwise distinct; two right-hand columns given the same alias are both
\* projected under it.
C21_OutputNamesUniqueForDistinctAliases ==
    (IsJoinCall /\ result.ok) =>
        /\ RightAliasWins
        /\ AliasesDistinct => OutputNamesDistinct

\* a left-hand column dropped for the right-hand column aliased to its name
C21_Witness ==
    /\ IsJoinCall
    /\ result.ok
    /\ "site" \in Range(LeftColumns)
    /\ call.kwargs = << <<"last_evt_timestamp", "site">> >>
    /\ Labels(result.query.select) = <<"site", "last_evt_timestamp">>

(***************************************************************************)
(* The time aggregate of query_time_agg (SpecTimeAgg)                      *)
(***************************************************************************)
\* C22: when the regular rollup assembles, query_time_agg raises the
\* invalid-time-aggregate ValueError for every time_agg other than first and
\* last; a plan it returns has the timestamp column aggregated with min for
\* first and max for last, projected as first_<timestamp> / last_<timestamp>.
C22_TimeAggregateFirstOrLast ==
    (IsTimeAggCall /\ RegularPlan.ok) =>
        /\ call.time_agg \notin {"first", "last"} =>
               /\ ~result.ok
               /\ result.exc = "ValueError"
               /\ result.at = "invalid_time_aggregate"
        /\ result.ok =>
               /\ call.time_agg \in {"first", "last"}
               /\ result.query.right.select[1] =
                      Expr("agg",
                           IF call.time_agg = "first" THEN "min" ELSE "max",
                           "table", call.timestamp, 0, ExtremeLabel)
               /\ \E i \in 1..Len(result.query.select) :
                      result.query.select[i]
                          = JoinColumn("b", ExtremeLabel, ExtremeLabel)

\* a joined plan for last
C22_Witness ==
    /\ IsTimeAggCall
    /\ result.ok
    /\ call.time_agg = "last"
    /\ result.query.right.select[1].fn = "max"
    /\ result.query.select[1].label = "last_evt_timestamp"

\* the first/last timestamp rollup of the call as query_agg assembles it when
\* it is given the dimension of the call
ExtremePlanWithDimension ==
    query_agg("None", "table",
              <<One(call.timestamp,
                    IF call.time_agg = "first" THEN "min" ELSE "max")>>,
              NoOutputs, call.groupby, call.timestamp, call.time_grain,
              call.dimension, call.start_ts, call.end_ts, call.entities).ret

\* C29: with a dimension and a group-by key found only in the dimension
\* table, whenever query_agg assembles both rollups for that table and
\* dimension as push-down plans, query_time_agg returns their join and does
\* not raise a group-by-column-not-found error.
C29_DimensionGroupByAccepted ==
    (/\ IsTimeAggCall
     /\ call.dimension = "dim"
     /\ call.groupby.names = <<"site">>
     /\ call.time_agg \in {"first", "last"}
     /\ RegularPlan.ok
     /\ ~IsFallbackPlan(RegularPlan)
     /\ ExtremePlanWithDimension.ok
     /\ ~IsFallbackPlan(ExtremePlanWithDimension))
    => /\ result.ok
       /\ result.query.left = RegularPlan.query
       /\ result.query.right = ExtremePlanWithDimension.query

\* C30: with the group-by omitted and a valid column, regular aggregate, time
\* aggregate, timestamp column and push-down grain, query_time_agg returns a
\* joined plan whose only join key is the timestamp.
C30_OmittedGroupByJoinsOnTimestamp ==
    (/\ IsTimeAggCall
     /\ call.groupby.form = "none"
     /\ call.timestamp = "evt_timestamp"
     /\ call.time_grain # NoGrain
     /\ call.time_agg \in {"first", "last"}
     /\ RegularPlan.ok
     /\ ~IsFallbackPlan(RegularPlan)
     /\ ExtremePlan.ok
     /\ ~IsFallbackPlan(ExtremePlan))
    => /\ result.ok
       /\ result.query.on = <<[l |-> call.timestamp, r |-> ExtremeLabel]>>

(***************************************************************************)
(* get_entity_type (SpecEntity)                                            *)
(***************************************************************************)
IsEntityCall == call.op = "get_entity_type" /\ ~IsPending

\* the name is a key of the cache or the metricTableName of an entry
IsKnownEntity ==
    \/ call.name \in DOMAIN entity_type_metadata
    \/ MetricTableMatches(entity_type_metadata, call.name) # {}

\* C27: get_entity_type returns an EntityType, and does not raise, for every
\* name that is the logical name or the metricTableName of a cached entry.
C27_KnownEntityReturned == (IsEntityCall /\ IsKnownEntity) => result.ok

(***************************************************************************)
(* read_agg (SpecReadAgg)                                                  *)
(***************************************************************************)
IsReadAggCall == call.op = "read_agg"

\* what query_agg returns or raises for the arguments of the call
ReadAggPlan ==
    query_agg("None", "table", call.agg_dict, call.agg_outputs, call.groupby,
              call.timestamp, call.time_grain, call.dimension, call.start_ts,
              call.end_ts, call.entities).ret

\* the positions in the log of the calls of fn
LogPositions(fn) == {i \in 1..Len(log) : log[i].fn = fn}

\* the exception is one the assembly raises
IsPlannerError(r) == ~r.ok /\ r # Pending /\ r.exc # "DatabaseError"

\* C23: in read_agg a planner error is raised before anything is executed:
\* once pd.read_sql has been called the assembly had succeeded, the statement
\* executed is the assembled plan, and the result is never a planner error;
\* when the assembly fails read_agg ends with that error and an empty log.
C23_PlannerErrorsBeforeExecution ==
    IsReadAggCall =>
        /\ LogPositions("read_sql") # {} =>
               /\ ReadAggPlan.ok
               /\ ~IsPlannerError(result)
               /\ \A i \in LogPositions("read_sql") :
                      log[i].sql = ReadAggPlan.query
        /\ (pc.at # "assemble" /\ ~ReadAggPlan.ok) =>
               /\ result = ReadAggPlan
               /\ pc.at = "done"
               /\ log = <<>>

\* read_agg has ended with a group-by-column-not-found error
C23_Witness ==
    /\ IsReadAggCall
    /\ pc.at = "done"
    /\ ~result.ok
    /\ result.at = "group_by_not_in_table_or_dimension"
    /\ log = <<>>

\* C26: in read_agg the resampler is called at most once, only for a
\* fallback plan and only after pd.read_sql; a read_agg that returns has
\* called it exactly when the plan is a fallback plan; the call is given the
\* plan's pandas_aggregate as time frequency, the timestamp column, the
\* group-by argument and the aggregate dictionary passed to query_agg.
C26_ResampleOnlyFallback ==
    IsReadAggCall =>
        /\ Cardinality(LogPositions("resample")) <= 1
        /\ \A i \in LogPositions("resample") :
               /\ IsFallbackPlan(ReadAggPlan)
               /\ \E j \in LogPositions("read_sql") : j < i
               /\ log[i].time_frequency = ReadAggPlan.pandas_aggregate
               /\ log[i].timestamp = call.timestamp
               /\ log[i].dimensions = call.groupby
               /\ log[i].agg = call.agg_dict
        /\ (pc.at = "done" /\ result.ok) =>
               (LogPositions("resample") # {} <=> IsFallbackPlan(ReadAggPlan))

\* a fallback plan was fetched and resampled once
C26_Witness ==
    /\ IsReadAggCall
    /\ pc.at = "done"
    /\ result.ok
    /\ IsFallbackPlan(ReadAggPlan)
    /\ Len(log) = 2
    /\ log[1].fn = "read_sql"
    /\ log[2].fn = "resample"
    /\ log[2].time_frequency = "W-MON"

(***************************************************************************)
(* http_request (SpecHttp)                                                 *)
(***************************************************************************)
IsHttpCall == call.op = "http_request"

\* the first call was a POST of one of the three object types
IsRetriedKind ==
    /\ call.request = "POST"
    /\ call.object_type \in {"kpiFunction", "defaultConstants", "constants"}

\* the second call is the first one re-sent as a PUT: same object type,
\* object names and payload
IsPutOfFirst ==
    /\ log[2].method = "PUT"
    /\ log[2].body = log[1].body
    /\ log[2].body = EncodedPayload(OrEmpty(call.payload))
    /\ log[2].url = Url(call.object_type, "PUT", OrEmpty(call.object_name),
                        call.object_name_2)

\* call i of the log is a POST of one of the three object types that was
\* answered with a 5xx status
IsFailedPost(i) ==
    /\ log[i].method = "POST"
    /\ log[i].url.route[1] \in {"kpiFunction", "defaultConstants", "constants"}
    /\ log[i].status \in 500..599

HttpCallsBounded ==
    IsHttpCall =>
        /\ Len(log) <= 2
        /\ Len(log) = 2 => (IsRetriedKind /\ IsFailedPost(1) /\ IsPutOfFirst)
        /\ (pc.at = "done" /\ Len(log) = 1) => ~IsFailedPost(1)

\* C28: http_request always ends, having made at most two HTTP calls; a
\* second call is made only for a POST of kpiFunction, defaultConstants or
\* constants and is that request as a PUT with the same names and payload;
\* no such POST answered 5xx is left without its PUT, and nothing else is
\* sent twice.
C28_AtMostOneResendAsPut ==
    /\ []HttpCallsBounded
    /\ <>(IsHttpCall => pc.at = "done")

\* a POST answered 5xx was re-sent as a PUT, which was answered 5xx too
C28_Witness ==
    /\ IsHttpCall
    /\ pc.at = "done"
    /\ Len(log) = 2
    /\ log[1].method = "POST"
    /\ log[2].method = "PUT"
    /\ log[2].status = 503
    /\ result.ok

(***************************************************************************)
(* The session and the query-building methods (SpecSession)                *)
(***************************************************************************)
IsPlannerCall == call.op \in {"query_agg", "query_time_agg", "subquery_join"}

\* a step leaves the fact table and the entity-type cache alone
FrameOfPlanner ==
    /\ rows' = rows
    /\ entity_type_metadata' = entity_type_metadata
    /\ log' = log

\* C24: query_agg, query_time_agg and subquery_join change no state of the
\* Database: in particular the session after the call is the session before
\* it.
C24_PlannerLeavesSession ==
    [][IsPlannerCall => (FrameOfPlanner /\ session' = session)]_vars

\* C24, as the code has it: the three methods never replace or close a
\* session that exists and change nothing else; subquery_join never touches
\* the session; query_agg and query_time_agg open one when there is none and
\* the assembly gets as far as building the query, so that every plan they
\* return belongs to a session.
C24_SessionOpenedNeverReplaced ==
    [][IsPlannerCall =>
           /\ FrameOfPlanner
           /\ session # "None" => session' = session
           /\ call.op = "subquery_join" => session' = session
           /\ session' # session => session' = "Session"
           /\ (call.op # "subquery_join" /\ result'.ok) => session' # "None"]_vars

\* query_agg has returned a plan and opened the session
C24_Witness ==
    /\ call.op = "query_agg"
    /\ result.ok
    /\ session = "Session"

(***************************************************************************)
(* Concurrent calls (SpecThreads)                                          *)
(***************************************************************************)
\* C25: whatever the interleaving of the threads' steps, a query_agg or
\* query_time_agg that has ended on the shared Database has returned or
\* raised exactly what it returns or raises when run alone; no call fails
\* on a missing session.
C25_ConcurrentCallsAsAlone ==
    call.op = "threads" =>
    \A t \in Threads :
        result[t] # Pending => result[t] = RunAlone(call.calls[t])

\* both threads found no session, both opened one, and both calls returned
\* their plans
C25_Witness ==
    /\ call.op = "threads"
    /\ \A t \in Threads : result[t].ok
    /\ Len(log) = 2
    /\ log[1].thread # log[2].thread

\* with Database.commit running beside them the calls are not safe: commit
\* sets self.session to None between a start_session and the session.query
\* that follows it (violated under SpecThreadsCommit)
ConcurrentCallsAsAloneWithCommit == C25_ConcurrentCallsAsAlone

====
